---- MODULE Spec2Model ----
(***************************************************************************)
(* GeoBridge: the satellite-index-to-risk pipeline of sentinel_utils.py.   *)
(*                                                                         *)
(* One run of process_risk_data is modelled as a state machine that walks  *)
(* the six factor blocks in the order of the source (vegetation, water,    *)
(* urban, burn, roof, drainage), then the composite block.  Arrays are     *)
(* grids of IEEE-like values: exact rationals plus NaN, +inf and -inf,     *)
(* with the propagation rules of float64 (rounding error is not modelled). *)
(***************************************************************************)
EXTENDS Integers, Sequences, FiniteSets, TLC

\* ------------------------------------------------------------------ bounds

\* Largest number of cells (height * width) of an input grid.
MaxCells == 2

\* Largest number of cells of a roof grid in the runs that focus on the roof
\* converter (three cells are needed for a value strictly between min and max).
MaxRoofCells == 3

\* ------------------------------------------------- float64 values (exact)

Abs(x) == IF x < 0 THEN -x ELSE x

RECURSIVE GCD(_, _)
GCD(a, b) == IF b = 0 THEN a ELSE GCD(b, a % b)

\* The finite value n/d, in lowest terms with a positive denominator.
Fin(n, d) ==
    LET g == GCD(Abs(n), Abs(d))
        s == IF d < 0 THEN -1 ELSE 1
    IN  [k |-> "fin", n |-> (s * n) \div g, d |-> (s * d) \div g]

Num(n) == [k |-> "fin", n |-> n, d |-> 1]
NaN == [k |-> "nan", n |-> 0, d |-> 1]
PosInf == [k |-> "pinf", n |-> 0, d |-> 1]
NegInf == [k |-> "ninf", n |-> 0, d |-> 1]

IsNaN(a) == a.k = "nan"
IsFinite(a) == a.k = "fin"
IsInf(a) == a.k \in {"pinf", "ninf"}

\* -1, 0 or 1 for a value that is not NaN.
Sign(a) ==
    CASE a.k = "pinf" -> 1
      [] a.k = "ninf" -> -1
      [] OTHER -> IF a.n > 0 THEN 1 ELSE IF a.n < 0 THEN -1 ELSE 0

SignedInf(s) == IF s > 0 THEN PosInf ELSE NegInf

Neg(a) ==
    CASE a.k = "nan" -> NaN
      [] a.k = "pinf" -> NegInf
      [] a.k = "ninf" -> PosInf
      [] OTHER -> Fin(-a.n, a.d)

Add(a, b) ==
    CASE IsNaN(a) \/ IsNaN(b) -> NaN
      [] IsInf(a) /\ IsInf(b) -> IF a.k = b.k THEN a ELSE NaN
      [] IsInf(a) -> a
      [] IsInf(b) -> b
      [] OTHER -> Fin(a.n * b.d + b.n * a.d, a.d * b.d)

Sub(a, b) == Add(a, Neg(b))

Mul(a, b) ==
    CASE IsNaN(a) \/ IsNaN(b) -> NaN
      [] IsInf(a) \/ IsInf(b) ->
            IF Sign(a) = 0 \/ Sign(b) = 0 THEN NaN ELSE SignedInf(Sign(a) * Sign(b))
      [] OTHER -> Fin(a.n * b.n, a.d * b.d)

Div(a, b) ==
    CASE IsNaN(a) \/ IsNaN(b) -> NaN
      [] IsInf(a) /\ IsInf(b) -> NaN
      [] IsInf(a) -> SignedInf(Sign(a) * (IF Sign(b) < 0 THEN -1 ELSE 1))
      [] IsInf(b) -> Num(0)
      [] b.n = 0 -> IF a.n = 0 THEN NaN ELSE SignedInf(Sign(a))
      [] OTHER -> Fin(a.n * b.d, a.d * b.n)

\* a > b; false as soon as one side is NaN.
Gt(a, b) ==
    CASE IsNaN(a) \/ IsNaN(b) -> FALSE
      [] a.k = "pinf" -> b.k # "pinf"
      [] a.k = "ninf" -> FALSE
      [] b.k = "pinf" -> FALSE
      [] b.k = "ninf" -> TRUE
      [] OTHER -> a.n * b.d > b.n * a.d

\* np.round: to the nearest integer, halves to the even neighbour.
NpRound(a) ==
    IF ~IsFinite(a) THEN a
    ELSE LET q == a.n \div a.d
             r == a.n % a.d
         IN  IF 2 * r < a.d THEN Num(q)
             ELSE IF 2 * r > a.d THEN Num(q + 1)
             ELSE IF q % 2 = 0 THEN Num(q) ELSE Num(q + 1)

\* np.clip(a, lo, hi) = minimum(maximum(a, lo), hi); NaN stays NaN.
NpClip(a, lo, hi) ==
    IF IsNaN(a) THEN NaN
    ELSE LET m == IF Gt(lo, a) THEN lo ELSE a
         IN  IF Gt(m, hi) THEN hi ELSE m

\* --------------------------------------------------------------- grids

\* A 2D array: its shape <<height, width>> and its cells in row-major order.
\* NoShape stands for None (no array, no reference shape yet).
NoShape == <<0, 0>>
NoneData == [shape |-> NoShape, cells |-> <<>>]

Cells(shape) == shape[1] * shape[2]
Grid(shape, cells) == [shape |-> shape, cells |-> cells]
At(g, i, j) == g.cells[(i - 1) * g.shape[2] + j]
FullGrid(shape, v) == Grid(shape, [p \in 1..Cells(shape) |-> v])

\* An array whose cells all hold v, kept as that one value: the 256 x 256
\* neutral array, which no later step reads cell by cell.
ConstantGrid(shape, v) == [shape |-> shape, fill |-> v]
CellOf(g, p) == IF "fill" \in DOMAIN g THEN g.fill ELSE g.cells[p]

RECURSIVE SumSeq(_, _)
SumSeq(s, p) == IF p = 0 THEN Num(0) ELSE Add(SumSeq(s, p - 1), s[p])

\* np.nanmean: the mean of the cells that are not NaN; NaN when there is none.
NpNanMean(g) ==
    LET kept == SelectSeq(g.cells, LAMBDA v : ~IsNaN(v))
    IN  Div(SumSeq(kept, Len(kept)), Num(Len(kept)))

RECURSIVE MaxSeq(_, _)
MaxSeq(s, p) ==
    IF p = 1 THEN s[1]
    ELSE LET m == MaxSeq(s, p - 1)
         IN  IF IsNaN(m) \/ IsNaN(s[p]) THEN NaN ELSE IF Gt(s[p], m) THEN s[p] ELSE m

RECURSIVE MinSeq(_, _)
MinSeq(s, p) ==
    IF p = 1 THEN s[1]
    ELSE LET m == MinSeq(s, p - 1)
         IN  IF IsNaN(m) \/ IsNaN(s[p]) THEN NaN ELSE IF Gt(m, s[p]) THEN s[p] ELSE m

\* np.max and np.min: NaN as soon as one cell is NaN.
NpMax(g) == MaxSeq(g.cells, Len(g.cells))
NpMin(g) == MinSeq(g.cells, Len(g.cells))

\* ------------------------------------------- scipy.ndimage.zoom, order=1

\* zoom_factor of the source: reference_shape[i] / array.shape[i].
ZoomFactor(shape, ref) ==
    <<Div(Num(ref[1]), Num(shape[1])), Div(Num(ref[2]), Num(shape[2]))>>

\* The output shape zoom derives from its argument: round(shape[i] * zoom[i]).
ZoomShape(shape, zf) ==
    <<NpRound(Mul(Num(shape[1]), zf[1])).n, NpRound(Mul(Num(shape[2]), zf[2])).n>>

\* Input coordinate of the 0-based output index o along an axis resampled
\* from n_in to n_out samples: o * (n_in - 1) / (n_out - 1), and o itself when
\* n_out = 1 (zoom then uses step 1 rather than dividing by zero).
ZoomCoord(o, n_in, n_out) == IF n_out = 1 THEN Num(o) ELSE Fin(o * (n_in - 1), n_out - 1)

\* The two samples linear interpolation reads for coordinate c, as
\* <<0-based index, weight>>: floor(c) with weight 1 - frac, floor(c) + 1 with frac.
Taps(c) ==
    LET f == c.n \div c.d
        t == Fin(c.n % c.d, c.d)
    IN  << <<f, Sub(Num(1), t)>>, <<f + 1, t>> >>

\* A sample of the input; outside the array the constant 0 (mode='constant',
\* cval=0.0).  A sample inside the array counts even with weight 0, so that
\* 0 * NaN = NaN reaches the output as in the floating-point sum.
Sample(g, i, j) ==
    IF i < g.shape[1] /\ j < g.shape[2] THEN At(g, i + 1, j + 1) ELSE Num(0)

ZoomCell(g, out, oi, oj) ==
    LET ti == Taps(ZoomCoord(oi, g.shape[1], out[1]))
        tj == Taps(ZoomCoord(oj, g.shape[2], out[2]))
        Term(a, b) == Mul(Mul(ti[a][2], tj[b][2]), Sample(g, ti[a][1], tj[b][1]))
    IN  Add(Add(Term(1, 1), Term(1, 2)), Add(Term(2, 1), Term(2, 2)))

\* zoom(array, zoom_factor, order=1): bilinear resampling.
Zoom(g, zf) ==
    LET out == ZoomShape(g.shape, zf)
    IN  Grid(out, [p \in 1..Cells(out) |->
                     ZoomCell(g, out, (p - 1) \div out[2], (p - 1) % out[2])])

\* ------------------------------------------------------ risk converters

\* A decimal literal of the source, given in tenths (Tenths(6) is 0.6).
Tenths(n) == Fin(n, 10)

\* Where3 with >= for >: a value equal to a breakpoint takes the upper branch.
Where3Inclusive(x, t1, s1, t2, s2, s3) ==
    IF ~Gt(t1, x) /\ ~IsNaN(x) THEN Num(s1)
    ELSE IF ~Gt(t2, x) /\ ~IsNaN(x) THEN Num(s2)
    ELSE Num(s3)

\* np.where(x > t1, s1, np.where(x > t2, s2, s3)) for one cell.
Where3(x, t1, s1, t2, s2, s3) ==
    IF Gt(x, t1) THEN Num(s1) ELSE IF Gt(x, t2) THEN Num(s2) ELSE Num(s3)

\* The nested np.where applied to an array.
Tiered(g, t1, s1, t2, s2, s3) ==
    Grid(g.shape, [p \in 1..Len(g.cells) |-> Where3(g.cells[p], t1, s1, t2, s2, s3)])

vegetation_risk(ndvi) == Tiered(ndvi, Tenths(6), 3, Tenths(2), 5, 7)
water_risk(ndmi) == Tiered(ndmi, Tenths(3), 3, Tenths(-1), 5, 8)
urban_risk(ndbi) == Tiered(ndbi, Tenths(1), 7, Tenths(-2), 4, 2)
burn_risk(nbr) == Tiered(nbr, Tenths(3), 2, Tenths(1), 5, 8)
drainage_risk(drainage_value) == Tiered(drainage_value, Tenths(2), 3, Tenths(-1), 6, 9)

\* The roof block: min-max normalisation to 2..10, or the constant 5 when
\* np.max(roof_value) > np.min(roof_value) is false.
roof_risk(roof_value) ==
    LET mx == NpMax(roof_value)
        mn == NpMin(roof_value)
        Score(x) == NpRound(Add(Mul(Div(Sub(x, mn), Sub(mx, mn)), Num(8)), Num(2)))
    IN  IF Gt(mx, mn)
        THEN Grid(roof_value.shape,
                  [p \in 1..Len(roof_value.cells) |-> Score(roof_value.cells[p])])
        ELSE FullGrid(roof_value.shape, Num(5))

\* get_ndvi_interpretation with the middle breakpoint of the risk table (0.2).
get_ndvi_interpretation_risk_breaks(v) ==
    IF Gt(v, Tenths(6)) THEN "Dense vegetation - lower fire risk, potential storm damage risk"
    ELSE IF Gt(v, Tenths(2)) THEN "Moderate vegetation - balanced risk profile"
    ELSE IF Gt(v, Tenths(1)) THEN "Sparse vegetation - higher fire risk"
    ELSE "Very sparse/no vegetation - high fire risk, erosion risk"

get_ndvi_interpretation(v) ==
    IF Gt(v, Tenths(6)) THEN "Dense vegetation - lower fire risk, potential storm damage risk"
    ELSE IF Gt(v, Tenths(3)) THEN "Moderate vegetation - balanced risk profile"
    ELSE IF Gt(v, Tenths(1)) THEN "Sparse vegetation - higher fire risk"
    ELSE "Very sparse/no vegetation - high fire risk, erosion risk"

get_ndmi_interpretation(v) ==
    IF Gt(v, Tenths(3)) THEN "High moisture content - lower fire risk"
    ELSE IF Gt(v, Tenths(0)) THEN "Moderate moisture content - medium fire risk"
    ELSE IF Gt(v, Tenths(-2)) THEN "Low moisture content - elevated fire risk"
    ELSE "Very low moisture - high fire risk"

get_ndbi_interpretation(v) ==
    IF Gt(v, Tenths(2)) THEN "Dense built-up area - high property density"
    ELSE IF Gt(v, Tenths(0)) THEN "Moderate development - medium property density"
    ELSE IF Gt(v, Tenths(-2)) THEN "Light development - low property density"
    ELSE "Natural area - minimal built infrastructure"

get_nbr_interpretation(v) ==
    IF Gt(v, Tenths(4)) THEN "Healthy vegetation - low fire risk"
    ELSE IF Gt(v, Tenths(2)) THEN "Moderate vegetation health - medium fire risk"
    ELSE IF Gt(v, Tenths(0)) THEN "Stressed vegetation - elevated fire risk"
    ELSE "Severely stressed/burned vegetation - high fire risk"

get_drainage_interpretation(v) ==
    IF Gt(v, Tenths(2)) THEN "Good drainage - vegetation thriving with appropriate moisture"
    ELSE IF Gt(v, Tenths(0)) THEN "Moderate drainage - some areas may have issues"
    ELSE IF Gt(v, Tenths(-2)) THEN "Poor drainage - vegetation stressed despite moisture"
    ELSE "Very poor drainage - high flood/waterlogging risk"

\* ------------------------------------------------------------ the inputs

VEG == "vegetation_health"
WATER == "water_stress"
URBAN == "urban_areas"
BURN == "burn_areas"
ROOF == "roof_risk"
DRAIN == "drainage_risk"

\* The six factors in the order process_risk_data handles them.
Order == <<VEG, WATER, URBAN, BURN, ROOF, DRAIN>>
Factors == {Order[p] : p \in 1..Len(Order)}

ShapesUpTo(maxc) == {s \in (1..maxc) \X (1..maxc) : s[1] * s[2] <= maxc}
GridsOver(shapes, values) ==
    UNION {{Grid(s, c) : c \in [1..Cells(s) -> values]} : s \in shapes}
ConstGridsOver(shapes, values) == {FullGrid(s, v) : s \in shapes, v \in values}

\* Channel 0 of the argument of a factor in a run where all six factors vary
\* together: every shape, and per factor a few raw values that reach different
\* tiers (breakpoints, NaN and infinities included).
PipelineGrids(f) ==
    CASE f = VEG -> GridsOver(ShapesUpTo(MaxCells), {Tenths(7), Tenths(2)})
      [] f = WATER -> ConstGridsOver(ShapesUpTo(MaxCells), {Tenths(5), Tenths(-1)})
      [] f = URBAN -> ConstGridsOver(ShapesUpTo(MaxCells), {Tenths(2), Tenths(-3)})
      [] f = BURN -> ConstGridsOver(ShapesUpTo(MaxCells), {Tenths(5), Tenths(2)})
      [] f = ROOF -> GridsOver(ShapesUpTo(MaxCells), {Num(0), Num(1), PosInf})
      [] f = DRAIN -> ConstGridsOver(ShapesUpTo(MaxCells), {Tenths(3), NaN})

\* Channel 0 of the argument of the factor a run focuses on (the other five
\* arguments are None): every raw value in tenths from -0.3 to 0.8 for a
\* threshold converter, values with half-way scores for the roof converter.
NonFinite == {NaN, PosInf, NegInf}
FocusGrids(f) ==
    IF f = ROOF
    THEN GridsOver(ShapesUpTo(MaxRoofCells),
                   {Num(0), Num(1), Num(3), Num(8), Num(16)} \cup NonFinite)
    ELSE GridsOver(ShapesUpTo(MaxCells), {Tenths(n) : n \in -3..8} \cup NonFinite)

\* ------------------------------------------------------------ the state

VARIABLES
    focus,            \* "none": all six arguments vary; a factor: only it is given
    pc,               \* the block of process_risk_data about to run
    reference_shape,  \* local reference_shape (NoShape for None)
    risk_layers,      \* local dict risk_layers: factor name -> risk grid
    index_values,     \* local dict index_values
    last,             \* the block that ran last: its factor, whether its argument
                      \* had the shape of the first argument given, whether zoom
                      \* was called, the array it converted
    first_shape,      \* history: shape of the first argument that was not None
    given,            \* history: the factors whose argument was not None
    ret,              \* the returned tuple (<<>> before the return)
    san,              \* sanitize_for_json: the object passed, the value returned
                      \* and the value returned for that value (<<>> before a call)
    raw,              \* the caller's array handed to the image functions
    viz,              \* the last call of an image function on raw (<<>> before)
    req,              \* analyze: the locals of the request being handled
    session,          \* the Flask session of the client (a dict)
    trend,            \* analyze_trends: the locals of the request being handled
    runs,             \* two calls of process_risk_data that are compared
    served            \* history: the requests the client made and what each did

vars == <<focus, pc, reference_shape, risk_layers, index_values, last, first_shape,
          given, ret, san, raw, viz, req, session, trend, runs, served>>

\* The variables of the request handlers of app.py.
web == <<req, session, trend, runs, served>>

Inputs(f) ==
    IF focus = "none" THEN {NoneData} \cup PipelineGrids(f)
    ELSE IF focus = f THEN FocusGrids(f)
    ELSE {NoneData}

NoBlock == [factor |-> "none", same_shape |-> FALSE, zoomed |-> FALSE, raw |-> NoneData]

Init ==
    /\ focus \in {"none"} \cup Factors
    /\ pc = VEG
    /\ reference_shape = NoShape
    /\ risk_layers = <<>>
    /\ index_values = <<>>
    /\ last = NoBlock
    /\ first_shape = NoShape
    /\ given = {}
    /\ ret = <<>>
    /\ san = <<>>
    /\ raw = NoneData
    /\ viz = <<>>
    /\ req = <<>>
    /\ session = <<>>
    /\ trend = <<>>
    /\ runs = <<>>
    /\ served = <<>>

\* dict[key] = value
Put(dict, key, value) ==
    [x \in DOMAIN dict \cup {key} |-> IF x = key THEN value ELSE dict[x]]

\* A block whose argument is None: nothing but the history changes.
SkipBlock(f) ==
    /\ last' = [NoBlock EXCEPT !.factor = f]
    /\ UNCHANGED <<reference_shape, risk_layers, index_values, first_shape, given>>

FirstShape(shape) == IF first_shape = NoShape THEN shape ELSE first_shape

\* The vegetation block: reference_shape is assigned without a test.
VegetationBlock(data) ==
    LET ndvi == data
    IN  /\ reference_shape' = ndvi.shape
        /\ risk_layers' = Put(risk_layers, VEG, vegetation_risk(ndvi))
        /\ index_values' = Put(index_values, VEG,
               [raw |-> NpNanMean(ndvi),
                interpretation |-> get_ndvi_interpretation(NpNanMean(ndvi))])
        /\ last' = [factor |-> VEG, same_shape |-> data.shape = FirstShape(data.shape),
                    zoomed |-> FALSE, raw |-> ndvi]
        /\ first_shape' = FirstShape(data.shape)
        /\ given' = given \cup {VEG}

\* NeedsZoom comparing the heights only.
NeedsZoomHeightOnly(shape) == reference_shape # NoShape /\ shape[1] # reference_shape[1]

\* The test that guards the call of zoom in the five later blocks.
NeedsZoom(shape) == reference_shape # NoShape /\ shape # reference_shape

\* The array after the alignment step of a block.
Aligned(g) ==
    IF NeedsZoom(g.shape) THEN Zoom(g, ZoomFactor(g.shape, reference_shape)) ELSE g

\* NextReference when every block assigns reference_shape, as the first one does.
NextReferenceOverwrite(g) == g.shape

\* reference_shape after the alignment step of a block.
NextReference(g) ==
    IF NeedsZoom(g.shape) THEN reference_shape
    ELSE IF reference_shape = NoShape THEN g.shape
    ELSE reference_shape

\* The conversion of each of the five later blocks.
RiskOf(f, value) ==
    CASE f = WATER -> water_risk(value)
      [] f = URBAN -> urban_risk(value)
      [] f = BURN -> burn_risk(value)
      [] f = ROOF -> roof_risk(value)
      [] f = DRAIN -> drainage_risk(value)

\* The interpretation string of each of the five later blocks.
InterpretationOf(f, mean) ==
    CASE f = WATER -> get_ndmi_interpretation(mean)
      [] f = URBAN -> get_ndbi_interpretation(mean)
      [] f = BURN -> get_nbr_interpretation(mean)
      [] f = ROOF -> "Custom roof material analysis for hail/storm vulnerability"
      [] f = DRAIN -> get_drainage_interpretation(mean)

\* The water, urban, burn, roof and drainage blocks: extract channel 0, align,
\* convert, store the layer and the summary.
LaterBlock(f, data) ==
    LET value == Aligned(data)
    IN  /\ reference_shape' = NextReference(data)
        /\ risk_layers' = Put(risk_layers, f, RiskOf(f, value))
        /\ index_values' = Put(index_values, f,
               [raw |-> NpNanMean(value),
                interpretation |-> InterpretationOf(f, NpNanMean(value))])
        /\ last' = [factor |-> f, same_shape |-> data.shape = FirstShape(data.shape),
                    zoomed |-> NeedsZoom(data.shape), raw |-> value]
        /\ first_shape' = FirstShape(data.shape)
        /\ given' = given \cup {f}


Vegetation ==
    /\ pc = VEG
    /\ \E data \in Inputs(VEG) :
          IF data = NoneData THEN SkipBlock(VEG) ELSE VegetationBlock(data)
    /\ pc' = WATER
    /\ UNCHANGED <<focus, ret, san, raw, viz, web>>

Water ==
    /\ pc = WATER
    /\ \E data \in Inputs(WATER) :
          IF data = NoneData THEN SkipBlock(WATER)
          ELSE LaterBlock(WATER, data)
    /\ pc' = URBAN
    /\ UNCHANGED <<focus, ret, san, raw, viz, web>>

Urban ==
    /\ pc = URBAN
    /\ \E data \in Inputs(URBAN) :
          IF data = NoneData THEN SkipBlock(URBAN)
          ELSE LaterBlock(URBAN, data)
    /\ pc' = BURN
    /\ UNCHANGED <<focus, ret, san, raw, viz, web>>

Burn ==
    /\ pc = BURN
    /\ \E data \in Inputs(BURN) :
          IF data = NoneData THEN SkipBlock(BURN)
          ELSE LaterBlock(BURN, data)
    /\ pc' = ROOF
    /\ UNCHANGED <<focus, ret, san, raw, viz, web>>

Roof ==
    /\ pc = ROOF
    /\ \E data \in Inputs(ROOF) :
          IF data = NoneData THEN SkipBlock(ROOF)
          ELSE LaterBlock(ROOF, data)
    /\ pc' = DRAIN
    /\ UNCHANGED <<focus, ret, san, raw, viz, web>>

Drainage ==
    /\ pc = DRAIN
    /\ \E data \in Inputs(DRAIN) :
          IF data = NoneData THEN SkipBlock(DRAIN)
          ELSE LaterBlock(DRAIN, data)
    /\ pc' = "composite"
    /\ UNCHANGED <<focus, ret, san, raw, viz, web>>

\* ------------------------------------------------------ the composite

\* risk_layers.items(): the keys in insertion order, which is the block order.
LayerNames == SelectSeq(Order, LAMBDA f : f \in DOMAIN risk_layers)

\* Whether numpy can add an array of shape s in place to one of shape t.
Broadcastable(s, t) == \A i \in 1..2 : s[i] = t[i] \/ s[i] = 1

\* total_risk += layer_data.astype(np.float64)
AddInPlace(total, layer) ==
    Grid(total.shape,
         [p \in 1..Cells(total.shape) |->
            LET i == ((p - 1) \div total.shape[2]) + 1
                j == ((p - 1) % total.shape[2]) + 1
            IN  Add(total.cells[p],
                    At(layer, IF layer.shape[1] = 1 THEN 1 ELSE i,
                              IF layer.shape[2] = 1 THEN 1 ELSE j))])

\* The accumulation loop after k layers: total_risk, factor_count, and whether
\* an addition raised because the shapes do not fit.
RECURSIVE Accumulate(_)
Accumulate(k) ==
    IF k = 0
    THEN [total_risk |-> FullGrid(reference_shape, Num(0)), factor_count |-> 0,
          raised |-> reference_shape = NoShape]
    ELSE LET acc == Accumulate(k - 1)
             layer == risk_layers[LayerNames[k]]
         IN  IF acc.raised \/ ~Broadcastable(layer.shape, acc.total_risk.shape)
             THEN [acc EXCEPT !.raised = TRUE]
             ELSE [total_risk |-> AddInPlace(acc.total_risk, layer),
                   factor_count |-> acc.factor_count + 1,
                   raised |-> FALSE]

\* CompositeRisk dividing by the number of factors instead of factor_count.
CompositeRiskOverSix(acc) ==
    Grid(acc.total_risk.shape,
         [p \in 1..Len(acc.total_risk.cells) |->
             NpClip(Div(acc.total_risk.cells[p], Num(Len(Order))), Num(1), Num(10))])

\* total_risk / factor_count (or the neutral grid), clipped to 1..10.
CompositeRisk(acc) ==
    LET mean == IF acc.factor_count > 0
                THEN Grid(acc.total_risk.shape,
                          [p \in 1..Len(acc.total_risk.cells) |->
                              Div(acc.total_risk.cells[p], Num(acc.factor_count))])
                ELSE FullGrid(reference_shape, Num(5))
    IN  Grid(mean.shape,
             [p \in 1..Len(mean.cells) |-> NpClip(mean.cells[p], Num(1), Num(10))])

\* NeutralReturn with a grid of zeros.
NeutralReturnZeros ==
    <<ConstantGrid(<<256, 256>>, Num(0)), [message |-> "No satellite data available"]>>

\* The value returned when risk_layers is empty.
NeutralReturn ==
    <<ConstantGrid(<<256, 256>>, Num(5)), [message |-> "No satellite data available"]>>

\* RiskValues with an entry for every factor, NaN for the absent ones.
RiskValuesAllFactors ==
    [f \in Factors |-> IF f \in DOMAIN risk_layers THEN NpNanMean(risk_layers[f]) ELSE NaN]

RiskValues == [f \in DOMAIN risk_layers |-> NpNanMean(risk_layers[f])]

\* The composite block, up to the return statement.
Composite ==
    /\ pc = "composite"
    /\ IF DOMAIN risk_layers = {}
       THEN /\ ret' = NeutralReturn
            /\ pc' = "done"
            /\ UNCHANGED index_values
       ELSE LET acc == Accumulate(Len(LayerNames))
                composite_risk == CompositeRisk(acc)
                summary == Put(index_values, "composite_risk", NpNanMean(composite_risk))
            IN  IF acc.raised
                THEN /\ pc' = "raised"
                     /\ UNCHANGED <<index_values, ret>>
                ELSE /\ index_values' = summary
                     /\ ret' = <<composite_risk, summary, RiskValues>>
                     /\ pc' = "done"
    /\ UNCHANGED <<focus, reference_shape, risk_layers, last, first_shape, given,
                   san, raw, viz, web>>

Next == Vegetation \/ Water \/ Urban \/ Burn \/ Roof \/ Drainage \/ Composite

Spec == Init /\ [][Next]_vars

\* =================================================================
\* Properties
\* =================================================================

Returned == pc = "done"
Composite_risk == ret[1]

\* The sum of the risk layers of the factors in S at cell p.
RECURSIVE SumOver(_, _)
SumOver(S, p) ==
    IF S = {} THEN Num(0)
    ELSE LET f == CHOOSE x \in S : TRUE
         IN  Add(risk_layers[f].cells[p], SumOver(S \ {f}, p))

\* clamp(v, 1, 10) of a rational v = n/d; NaN is left as it is.
Clamp(v) ==
    IF ~IsFinite(v) THEN (IF v = PosInf THEN Num(10) ELSE IF v = NegInf THEN Num(1) ELSE v)
    ELSE IF v.n < v.d THEN Num(1)
    ELSE IF v.n > 10 * v.d THEN Num(10)
    ELSE v

\* C1: with at least one factor present, every cell of the returned composite
\* is the arithmetic mean of the present factors' risk values at that cell,
\* each with weight 1, clamped to [1, 10] (a mean that is NaN stays NaN).
C1_CompositeIsClampedMean ==
    (Returned /\ given # {}) =>
        /\ Composite_risk.shape = first_shape
        /\ \A p \in 1..Cells(first_shape) :
              Composite_risk.cells[p] =
                  Clamp(Div(SumOver(given, p), Num(Cardinality(given))))

\* C1 witness: three or more factors, two cells with different composites, one
\* of them not an integer.
C1_Witness ==
    /\ Returned
    /\ Cardinality(given) >= 3
    /\ \E p, q \in 1..Len(Composite_risk.cells) :
          /\ Composite_risk.cells[p] # Composite_risk.cells[q]
          /\ IsFinite(Composite_risk.cells[p])
          /\ Composite_risk.cells[p].d # 1

\* C2: with at least one factor present, every cell of the returned composite
\* is a finite number between 1 and 10, whatever the input cells were.
C2_CompositeFiniteInRange ==
    (Returned /\ given # {}) =>
        \A p \in 1..Len(Composite_risk.cells) :
            LET v == Composite_risk.cells[p]
            IN  IsFinite(v) /\ v.n >= v.d /\ v.n <= 10 * v.d

\* C3: when all six arguments are None the run returns (it does not raise) a
\* 256 x 256 grid whose cells are all 5.0 and a summary with the no-data marker.
C3_NeutralGridWhenNoData ==
    (pc \in {"done", "raised"} /\ given = {}) =>
        /\ pc = "done"
        /\ Composite_risk.shape = <<256, 256>>
        /\ \A p \in 1..(256 * 256) : CellOf(Composite_risk, p) = Fin(5, 1)
        /\ DOMAIN ret[2] = {"message"}

\* C3 witness: a run with no factor has returned.
C3_Witness == Returned /\ given = {} /\ focus = "none"

\* C4: for every subset of present factors, the empty one included, the
\* returned tuple has three parts.
C4_ThreePartResult == Returned => Len(ret) = 3

\* x > t/10 for a finite x.
Above(x, t) == 10 * x.n > t * x.d

\* The score the threshold tables give a finite raw value.
TierScore(f, x) ==
    CASE f = VEG -> IF Above(x, 6) THEN 3 ELSE IF Above(x, 2) THEN 5 ELSE 7
      [] f = WATER -> IF Above(x, 3) THEN 3 ELSE IF Above(x, -1) THEN 5 ELSE 8
      [] f = URBAN -> IF Above(x, 1) THEN 7 ELSE IF Above(x, -2) THEN 4 ELSE 2
      [] f = BURN -> IF Above(x, 3) THEN 2 ELSE IF Above(x, 1) THEN 5 ELSE 8
      [] f = DRAIN -> IF Above(x, 2) THEN 3 ELSE IF Above(x, -1) THEN 6 ELSE 9

\* The block that ran last had an argument.
LastPresent == last.factor \in Factors /\ last.raw # NoneData

\* C5: each finite cell of a threshold converter's array gets the score of the
\* table, with strict comparisons: a value equal to a breakpoint falls into
\* the lower branch.
C5_ThresholdScores ==
    (LastPresent /\ last.factor # ROOF) =>
        \A p \in 1..Len(last.raw.cells) :
            IsFinite(last.raw.cells[p]) =>
                risk_layers[last.factor].cells[p].k = "fin"
                /\ risk_layers[last.factor].cells[p].d = 1
                /\ risk_layers[last.factor].cells[p].n = TierScore(last.factor, last.raw.cells[p])

\* C5 witness: a vegetation cell equal to the breakpoint 0.6 scored 5 and a
\* cell above it scored 3.
C5_Witness ==
    /\ LastPresent
    /\ last.factor = VEG
    /\ \E p, q \in 1..Len(last.raw.cells) :
          /\ last.raw.cells[p] = Fin(6, 10)
          /\ risk_layers[VEG].cells[p] = Fin(5, 1)
          /\ last.raw.cells[q] = Fin(7, 10)
          /\ risk_layers[VEG].cells[q] = Fin(3, 1)

\* The tier values of each converter.
TierSet(f) ==
    CASE f = VEG -> {3, 5, 7}
      [] f = WATER -> {3, 5, 8}
      [] f = URBAN -> {2, 4, 7}
      [] f = BURN -> {2, 5, 8}
      [] f = DRAIN -> {3, 6, 9}
      [] f = ROOF -> 2..10

\* C6: every risk grid is non-empty and each of its values belongs to the tier
\* set of its factor, NaN and infinite input cells and resampled grids included.
C6_RiskValuesInTierSet ==
    \A f \in DOMAIN risk_layers :
        /\ Len(risk_layers[f].cells) > 0
        /\ \A p \in 1..Len(risk_layers[f].cells) :
              LET v == risk_layers[f].cells[p]
              IN  IsFinite(v) /\ v.d = 1 /\ v.n \in TierSet(f)

\* round((x - lo) / (hi - lo) * 8 + 2) for finite x, lo < hi, halves to even.
RoofScore(x, lo, hi) ==
    LET num == 8 * (x.n * lo.d * hi.d - lo.n * x.d * hi.d) + 2 * (hi.n * lo.d - lo.n * hi.d) * x.d
        den == (hi.n * lo.d - lo.n * hi.d) * x.d
        q == num \div den
        r == num % den
    IN  IF 2 * r < den THEN q
        ELSE IF 2 * r > den THEN q + 1
        ELSE IF q % 2 = 0 THEN q ELSE q + 1

AllEqual(g) == \A p, q \in 1..Len(g.cells) : g.cells[p] = g.cells[q]
AllFinite(g) == \A p \in 1..Len(g.cells) : IsFinite(g.cells[p])
\* Cell p holds a number and no cell holds a smaller (a larger) one.
IsMinCell(g, p) == ~IsNaN(g.cells[p]) /\ \A q \in 1..Len(g.cells) : ~Gt(g.cells[p], g.cells[q])
IsMaxCell(g, p) == ~IsNaN(g.cells[p]) /\ \A q \in 1..Len(g.cells) : ~Gt(g.cells[q], g.cells[p])

\* Two cells hold different numbers (the minimum is below the maximum).
HasSpread(g) == \E p, q \in 1..Len(g.cells) : Gt(g.cells[p], g.cells[q])

\* The roof scores of the cells that hold numbers, when min and max are numbers.
RoofScoresFollowFormula(g, risk) ==
    \A p, lo, hi \in 1..Len(g.cells) :
        (IsFinite(g.cells[p]) /\ IsFinite(g.cells[lo]) /\ IsFinite(g.cells[hi])
         /\ IsMinCell(g, lo) /\ IsMaxCell(g, hi) /\ Gt(g.cells[hi], g.cells[lo])) =>
            risk.cells[p] = Fin(RoofScore(g.cells[p], g.cells[lo], g.cells[hi]), 1)

\* C7: a roof grid whose cells are not all equal is scored round(norm*8 + 2)
\* with norm = (x - min)/(max - min), so its minimum cells score 2 and its
\* maximum cells score 10; a roof grid whose cells are all equal scores 5
\* everywhere.
C7_RoofMinMaxScores ==
    (LastPresent /\ last.factor = ROOF) =>
        LET g == last.raw
            risk == risk_layers[ROOF]
        IN  IF AllEqual(g)
            THEN \A p \in 1..Len(g.cells) : risk.cells[p] = Fin(5, 1)
            ELSE /\ RoofScoresFollowFormula(g, risk)
                 /\ HasSpread(g) =>
                       \A p \in 1..Len(g.cells) :
                           /\ IsMinCell(g, p) => risk.cells[p] = Fin(2, 1)
                           /\ IsMaxCell(g, p) => risk.cells[p] = Fin(10, 1)

\* The statement of C7 for the roof grids whose cells are all finite (the
\* part of C7 the roof block does satisfy).
RoofScoresOfFiniteGrids ==
    (LastPresent /\ last.factor = ROOF /\ AllFinite(last.raw)) => C7_RoofMinMaxScores

\* C8: after a run with at least one factor present, risk_values has a key for
\* a factor exactly when its argument was given, and index_values has those
\* keys and composite_risk, nothing else.
C8_KeysArePresentFactors ==
    (Returned /\ given # {}) =>
        /\ DOMAIN ret[3] = given
        /\ DOMAIN ret[2] = given \cup {"composite_risk"}

\* C8 witness: a run with some factors given and some not has returned.
C8_Witness == Returned /\ given # {} /\ given # Factors /\ Cardinality(given) >= 2

\* C9: once reference_shape holds a value, no block changes it.
C9_ReferenceShapeWrittenOnce ==
    [][reference_shape # NoShape => reference_shape' = reference_shape]_vars

\* C9 witness: a block whose argument had another shape than the reference
\* has run, and the reference is still the first shape.
C9_Witness ==
    /\ LastPresent
    /\ ~last.same_shape
    /\ reference_shape = first_shape

\* C10: the reference shape is the shape of the first present factor; a later
\* factor of that shape is not resampled (zoom is called exactly for the other
\* shapes); every risk layer has the reference shape.
C10_LayersHaveReferenceShape ==
    /\ reference_shape = first_shape
    /\ LastPresent => (last.zoomed <=> ~last.same_shape)
    /\ \A f \in DOMAIN risk_layers : risk_layers[f].shape = first_shape

\* C10 witness: at the aggregation, the first present factor was not the
\* vegetation one, the last one was resampled, and there are three layers.
C10_Witness ==
    /\ pc = "composite"
    /\ VEG \notin given
    /\ Cardinality(DOMAIN risk_layers) >= 3
    /\ LastPresent
    /\ last.zoomed


\* ---------------------------------------------------------------------------
\* src/app.py: sanitize_for_json
\* ---------------------------------------------------------------------------

\* length of the longest list and dict passed
MaxLen == 2

\* the variables of process_risk_data
pipeline == <<focus, pc, reference_shape, risk_layers, index_values, last,
              first_shape, given, ret>>

\* Python and numpy objects, tagged with their type
PyFloat(v) == [t |-> "float", v |-> v]
NpFloating(v) == [t |-> "np.floating", v |-> v]
NpInteger(v) == [t |-> "np.integer", v |-> v]
PyInt(v) == [t |-> "int", v |-> v]
PyStr(s) == [t |-> "str", s |-> s]
PyTuple(items) == [t |-> "tuple", items |-> items]
PyList(items) == [t |-> "list", items |-> items]
PyDict(d) == [t |-> "dict", map |-> d]
\* a float64 array of one dimension (rows: its elements, as one row) or of two
NdArray(ndim, rows) == [t |-> "np.ndarray", ndim |-> ndim, rows |-> rows]

\* the members of a dict, list or tuple
Members(obj) ==
    IF obj.t = "dict" THEN {obj.map[key] : key \in DOMAIN obj.map}
    ELSE {obj.items[i] : i \in DOMAIN obj.items}

\* obj.tolist(): nested lists of Python floats, the elements as they are
tolist(obj) ==
    IF obj.ndim = 1
    THEN PyList([j \in DOMAIN obj.rows[1] |-> PyFloat(obj.rows[1][j])])
    ELSE PyList([i \in DOMAIN obj.rows |->
                    PyList([j \in DOMAIN obj.rows[i] |-> PyFloat(obj.rows[i][j])])])

\* np.isnan(obj) or np.isinf(obj); math.isnan(obj) or math.isinf(obj)
IsNanOrInf(v) == IsNaN(v) \/ IsInf(v)

RECURSIVE sanitize_for_json(_)
sanitize_for_json(obj) ==
    IF obj.t = "dict"
    THEN PyDict([key \in DOMAIN obj.map |-> sanitize_for_json(obj.map[key])])
    ELSE IF obj.t = "list"
    THEN PyList([i \in DOMAIN obj.items |-> sanitize_for_json(obj.items[i])])
    ELSE IF obj.t \in {"np.integer", "np.floating"}
    THEN IF IsNanOrInf(obj.v) THEN PyFloat(Num(0)) ELSE PyFloat(obj.v)
    ELSE IF obj.t = "np.ndarray"
    THEN tolist(obj)
    ELSE IF obj.t = "float"
    THEN IF IsNanOrInf(obj.v) THEN PyFloat(Num(0)) ELSE obj
    ELSE obj

\* sequences of length 1..n over a set
SeqsUpTo(S, n) == UNION {[1..k -> S] : k \in 1..n}

Keys == <<"a", "b", "c", "d">>

\* dicts whose keys are the first 0..n of Keys
DictsUpTo(S, n) == UNION {[{Keys[i] : i \in 1..k} -> S] : k \in 0..n}

Arrays ==
    {NdArray(1, <<c>>) : c \in {<<NaN>>, <<Num(1), NaN>>, <<Num(1), Num(2)>>}}
        \cup {NdArray(2, <<c>>) : c \in {<<Num(1), PosInf>>, <<Num(0), Num(2)>>}}

Leaves ==
    {PyFloat(v) : v \in {Fin(3, 2), NaN, NegInf}}
        \cup {NpFloating(v) : v \in {Fin(5, 2), NaN, PosInf}}
        \cup {NpInteger(Num(3)), PyInt(Num(7)), PyStr("x"),
              PyTuple(<<PyFloat(NaN)>>)}
        \cup Arrays

Flat ==
    {PyList(items) : items \in {<<>>} \cup SeqsUpTo(Leaves, MaxLen)}
        \cup {PyDict(d) : d \in DictsUpTo(Leaves, MaxLen)}

Wrapped(S) == {PyList(<<x>>) : x \in S} \cup {PyDict([key \in {"a"} |-> x]) : x \in S}

Objects == Leaves \cup Flat \cup Wrapped(Flat)

InitSan == Init /\ focus = "none"

\* a request handler passes an object to sanitize_for_json
Sanitize ==
    /\ san = <<>>
    /\ \E obj \in Objects :
          san' = [obj |-> obj, once |-> sanitize_for_json(obj), calls |-> 1,
                  twice |-> PyStr("")]
    /\ UNCHANGED <<pipeline, raw, viz, web>>

\* the value returned is passed to sanitize_for_json again
SanitizeAgain ==
    /\ san # <<>>
    /\ san.calls = 1
    /\ san' = [san EXCEPT !.calls = 2, !.twice = sanitize_for_json(san.once)]
    /\ UNCHANGED <<pipeline, raw, viz, web>>

NextSan == Sanitize \/ SanitizeAgain

SpecSan == InitSan /\ [][NextSan]_vars

\* the object holds no NaN, +inf or -inf at any depth
RECURSIVE NonFiniteFree(_)
NonFiniteFree(obj) ==
    IF obj.t \in {"dict", "list", "tuple"}
    THEN \A member \in Members(obj) : NonFiniteFree(member)
    ELSE IF obj.t = "np.ndarray"
    THEN NonFiniteFree(tolist(obj))
    ELSE IF obj.t \in {"float", "np.floating", "np.integer"}
    THEN IsFinite(obj.v)
    ELSE TRUE

\* C11: the value sanitize_for_json returns holds no NaN, +inf or -inf at any
\* depth of its dicts and lists, the elements of numeric arrays included.
C11_ResultHoldsNoNonFinite == (san # <<>>) => NonFiniteFree(san.once)

\* C12: sanitize_for_json is idempotent: sanitizing the value it returned gives
\* that value again, also for objects holding arrays with non-finite elements.
C12_SanitizeIdempotent == (san # <<>> /\ san.calls = 2) => san.twice = san.once

\* ---------------------------------------------------------------------------
\* src/sentinel_utils.py: array_to_image and risk_score_to_image
\* ---------------------------------------------------------------------------

\* number of cells of the largest array of raw values passed
MaxVizCells == 2

\* np.uint8 arithmetic: results are kept modulo 2^8
U8(n) == n % 256

\* the integer part of a finite value (rounding toward zero)
Trunc(a) == IF a.n >= 0 THEN a.n \div a.d ELSE -((-a.n) \div a.d)

\* .astype(np.uint8) of a float64 cell
AsUint8(a) == U8(Trunc(a))

\* np.clip of a uint8 cell
ClipInt(n, lo, hi) == LET m == IF n < lo THEN lo ELSE n IN IF m > hi THEN hi ELSE m

\* np.nan_to_num(array, nan=.., posinf=.., neginf=..)
NanToNum(g, nan, posinf, neginf) ==
    [g EXCEPT !.cells = [p \in DOMAIN g.cells |->
        CASE g.cells[p] = NaN -> nan
          [] g.cells[p] = PosInf -> posinf
          [] g.cells[p] = NegInf -> neginf
          [] OTHER -> g.cells[p]]]

\* the pixel of each color scheme for the intensity v of img_array (uint8)
Gray(v) == <<v, v, v>>
Red(v) == <<v, 0, 0>>
Green(v) == <<0, v, 0>>
Blue(v) == <<U8(255 - v), U8(255 - v), v>>

WaterBlue(v) ==
    LET fade_factor == ClipInt(U8(255 - U8(v * 3)), 0, 255)
    IN  <<fade_factor, fade_factor, ClipInt(U8(v * 2), 0, 255)>>

\* the masks of scheme heat
cold_mask(v) == v < 85

\* medium_mask with > for >=: intensity 85 is in no mask
HeatMediumExclusive(v) == v > 85 /\ v < 170

heat_medium_mask(v) == v >= 85 /\ v < 170
hot_mask(v) == v >= 170

\* the three masked assignments, in the order of the code, on a zero pixel
Heat(v) ==
    LET c1 == IF cold_mask(v) THEN <<0, U8(v * 3), 255>> ELSE <<0, 0, 0>>
        c2 == IF heat_medium_mask(v)
              THEN <<U8(U8(v - 85) * 3), 0, U8(255 - U8(U8(v - 85) * 3))>>
              ELSE c1
    IN  IF hot_mask(v) THEN <<255, U8(U8(v - 170) * 3), 0>> ELSE c2

\* img_array * 0.7 and img_array * 1.3 are float64; the clipped product is
\* cut to its integer part when stored in the uint8 colormap
Purple(v) ==
    <<AsUint8(NpClip(Mul(Num(v), Fin(7, 10)), Num(0), Num(255))), 0,
      AsUint8(NpClip(Mul(Num(v), Fin(13, 10)), Num(0), Num(255)))>>

\* the masks of scheme blue_to_brown
wet_mask(v) == v > 170
moisture_medium_mask(v) == v > 85 /\ v <= 170
dry_mask(v) == v <= 85

BlueToBrown(v) ==
    LET c1 == IF wet_mask(v) THEN <<0, v \div 2, v>> ELSE <<0, 0, 0>>
        c2 == IF moisture_medium_mask(v)
              THEN <<U8(100 - v \div 2), U8(100 + v \div 3), v>>
              ELSE c1
    IN  IF dry_mask(v) THEN <<U8(140 - v \div 2), U8(80 - v \div 4), v \div 3>> ELSE c2

Schemes ==
    {"gray", "red", "green", "blue", "water_blue", "heat", "purple",
     "blue_to_brown", "rainbow"}

ColorOf(color_scheme, v) ==
    CASE color_scheme = "gray" -> Gray(v)
      [] color_scheme = "red" -> Red(v)
      [] color_scheme = "green" -> Green(v)
      [] color_scheme = "blue" -> Blue(v)
      [] color_scheme = "water_blue" -> WaterBlue(v)
      [] color_scheme = "heat" -> Heat(v)
      [] color_scheme = "purple" -> Purple(v)
      [] color_scheme = "blue_to_brown" -> BlueToBrown(v)
      [] OTHER -> Gray(v)

\* ValidShape accepting every rank from 2 on
ValidShapeAtLeastTwo(shape) == Len(shape) >= 2

\* len(array.shape) == 2
ValidShape(shape) == Len(shape) = 2

\* The caller's array and the array a local name of the function holds.
\* array.copy(), np.copy(array) and array.astype(np.float64) give the local
\* name a new array with the values of the caller's.
CopyOf(array) == [array |-> array, work |-> array]

\* Rebind with f writing its result into the caller's array
RebindInPlace(st, g) == [array |-> g, work |-> g]

\* name = f(name): the local name is bound to the new array f returned
Rebind(st, g) == [st EXCEPT !.work = g]

\* None for min_val, max_val
NoneVal == [k |-> "none", n |-> 0, d |-> 1]

\* CleanArray with posinf=0
CleanArrayPosInfZero(g) == NanToNum(g, Num(0), Num(0), Num(0))

\* np.nan_to_num(img_array, nan=0, posinf=255, neginf=0)
CleanArray(g) == NanToNum(g, Num(0), Num(255), Num(0))

\* raise ValueError after the steps done so far
Raise(array, steps) ==
    [array |-> array, error |-> "ValueError", steps |-> steps, work |-> NoneData,
     lo |-> NoneVal, hi |-> NoneVal, img |-> <<>>, colormap |-> <<>>,
     layer |-> NoneData]

\* ClipToRange without the clip
ClipToRangeNone(x, lo, hi) == x

\* np.clip(img_array, min_val, max_val)
ClipToRange(x, lo, hi) == NpClip(x, lo, hi)

\* Rescale with np.ones_like for np.zeros_like
RescaleDegenerateOnes(x, lo, hi) ==
    IF hi # lo THEN Div(Sub(x, lo), Sub(hi, lo)) ELSE Num(1)

\* (img_array - min_val) / (max_val - min_val), or np.zeros_like(img_array)
Rescale(x, lo, hi) ==
    IF hi # lo THEN Div(Sub(x, lo), Sub(hi, lo)) ELSE Num(0)

array_to_image(array, color_scheme, normalize, min_val, max_val) ==
    IF ~ValidShape(array.shape)
    THEN Raise(array, <<>>)
    ELSE
    LET copied == CopyOf(array)
        cleaned == Rebind(copied, CleanArray(copied.work))
        lo == IF min_val = NoneVal THEN NpMin(cleaned.work) ELSE min_val
        hi == IF max_val = NoneVal THEN NpMax(cleaned.work) ELSE max_val
        Scaled(x) == Rescale(ClipToRange(x, lo, hi), lo, hi)
        img_array ==
            [p \in DOMAIN cleaned.work.cells |->
                IF normalize
                THEN AsUint8(Mul(Scaled(cleaned.work.cells[p]), Num(255)))
                ELSE AsUint8(NpClip(cleaned.work.cells[p], Num(0), Num(255)))]
        scale == IF normalize THEN "normalize" ELSE "clip"
    IN  IF Len(array.shape) # 2
        THEN Raise(cleaned.array, <<"clean", scale>>)
        ELSE [array |-> cleaned.array, error |-> "none",
              steps |-> <<"clean", scale, "colormap", "encode">>,
              work |-> cleaned.work,
              lo |-> IF normalize THEN lo ELSE NoneVal,
              hi |-> IF normalize THEN hi ELSE NoneVal,
              img |-> img_array,
              colormap |-> [p \in DOMAIN img_array |-> ColorOf(color_scheme, img_array[p])],
              layer |-> NoneData]

\* CleanRisk with nan=0
CleanRiskNanZero(g, scale_max) == NanToNum(g, Num(0), scale_max, Num(0))

\* np.nan_to_num(risk_clean, nan=scale_max/2, posinf=scale_max, neginf=0)
CleanRisk(g, scale_max) == NanToNum(g, Div(scale_max, Num(2)), scale_max, Num(0))

risk_score_to_image(risk_score, scale_max) ==
    IF ~ValidShape(risk_score.shape)
    THEN Raise(risk_score, <<>>)
    ELSE
    LET copied == CopyOf(risk_score)
        cleaned == Rebind(copied, CleanRisk(copied.work, scale_max))
        normalized_risk(p) == NpClip(Div(cleaned.work.cells[p], scale_max), Num(0), Num(1))
        risk_255 ==
            [p \in DOMAIN cleaned.work.cells |-> AsUint8(Mul(normalized_risk(p), Num(255)))]
    IN  IF Len(risk_score.shape) # 2
        THEN Raise(cleaned.array, <<"clean", "normalize">>)
        ELSE [array |-> cleaned.array, error |-> "none",
              steps |-> <<"clean", "normalize", "colormap", "encode">>,
              work |-> cleaned.work, lo |-> NoneVal, hi |-> NoneVal,
              img |-> risk_255,
              colormap |-> [p \in DOMAIN risk_255 |-> <<risk_255[p], U8(255 - risk_255[p]), 0>>],
              layer |-> NoneData]

\* process_risk_data with the array as channel 0 of the argument of factor f:
\* the block converts the float64 copy it extracted
ConvertOne(array, f) ==
    LET extracted == CopyOf(array)
    IN  [array |-> extracted.array, error |-> "none", steps |-> <<"convert">>,
         work |-> extracted.work, lo |-> NoneVal, hi |-> NoneVal, img |-> <<>>,
         colormap |-> <<>>,
         layer |-> IF f = VEG THEN vegetation_risk(extracted.work)
                   ELSE RiskOf(f, extracted.work)]

\* The arrays a caller passes: small arrays of raw values (finite values below,
\* inside and above the ranges used, NaN and both infinities), one-cell arrays
\* holding every 8-bit intensity, and arrays of 0, 1 and 3 dimensions.
VizValues ==
    {Num(0), Num(5), Num(10), Num(-3), Num(300), Fin(5, 2), NaN, PosInf, NegInf}

ValueGrids == GridsOver(ShapesUpTo(MaxVizCells), VizValues)

IntensityGrids == {Grid(<<1, 1>>, <<Num(v)>>) : v \in 0..255}

OtherRanks ==
    {[shape |-> <<>>, cells |-> <<v>>] : v \in {Num(5), NaN}}
        \cup {[shape |-> <<2>>, cells |-> <<Num(0), v>>] : v \in {Num(10), PosInf}}
        \cup {[shape |-> <<1, 2, 1>>, cells |-> <<Num(0), v>>] : v \in {Num(10), NaN}}

RawArrays == ValueGrids \cup IntensityGrids \cup OtherRanks

MinVals == {NoneVal, Num(0), Num(5)}
MaxVals == {NoneVal, Num(5), Num(10)}

\* the keyword arguments passed with an array: every scheme without
\* normalization for the 8-bit intensities, and for the raw values two schemes
\* with every range and one without normalization
ImageCalls(array) ==
    {[color_scheme |-> c, normalize |-> FALSE, min_val |-> NoneVal, max_val |-> NoneVal] :
        c \in IF array \in IntensityGrids \cup OtherRanks THEN Schemes ELSE {"gray"}}
    \cup (IF array \in ValueGrids \cup OtherRanks
          THEN {[color_scheme |-> c, normalize |-> TRUE, min_val |-> lo, max_val |-> hi] :
                    c \in {"gray", "heat"}, lo \in MinVals, hi \in MaxVals}
          ELSE {})

ScaleMaxes == {Num(10), Num(4)}

InitViz ==
    /\ focus = "none"
    /\ pc = VEG
    /\ reference_shape = NoShape
    /\ risk_layers = <<>>
    /\ index_values = <<>>
    /\ last = NoBlock
    /\ first_shape = NoShape
    /\ given = {}
    /\ ret = <<>>
    /\ san = <<>>
    /\ raw \in RawArrays
    /\ viz = <<>>
    /\ req = <<>>
    /\ session = <<>>
    /\ trend = <<>>
    /\ runs = <<>>
    /\ served = <<>>

ArrayToImage ==
    /\ \E call \in ImageCalls(raw) :
          LET r == array_to_image(raw, call.color_scheme, call.normalize,
                                  call.min_val, call.max_val)
          IN  /\ viz' = [fn |-> "array_to_image",
                         color_scheme |-> call.color_scheme,
                         normalize |-> call.normalize, min_val |-> call.min_val,
                         max_val |-> call.max_val, scale_max |-> NoneVal,
                         factor |-> "none", result |-> r]
              /\ raw' = r.array
    /\ UNCHANGED <<pipeline, san, web>>

RiskScoreToImage ==
    /\ \E scale_max \in ScaleMaxes :
          LET r == risk_score_to_image(raw, scale_max)
          IN  /\ viz' = [fn |-> "risk_score_to_image",
                         color_scheme |-> "none", normalize |-> FALSE,
                         min_val |-> NoneVal, max_val |-> NoneVal,
                         scale_max |-> scale_max, factor |-> "none", result |-> r]
              /\ raw' = r.array
    /\ UNCHANGED <<pipeline, san, web>>

ProcessRiskData ==
    /\ Len(raw.shape) = 2
    /\ \E f \in Factors :
          LET r == ConvertOne(raw, f)
          IN  /\ viz' = [fn |-> "process_risk_data",
                         color_scheme |-> "none", normalize |-> FALSE,
                         min_val |-> NoneVal, max_val |-> NoneVal,
                         scale_max |-> NoneVal, factor |-> f, result |-> r]
              /\ raw' = r.array
    /\ UNCHANGED <<pipeline, san, web>>

NextViz == ArrayToImage \/ RiskScoreToImage \/ ProcessRiskData

SpecViz == InitViz /\ [][NextViz]_vars

\* -------------------------------------------- properties of the image functions

\* the last call was a call of fn
Called(fn) == viz # <<>> /\ viz.fn = fn

\* the last call was a call of fn that returned an image
Drawn(fn) == Called(fn) /\ viz.result.error = "none"

\* a <= b for values that are not NaN
Le(a, b) == ~Gt(a, b)

\* C13: array_to_image and risk_score_to_image raise the invalid-shape error
\* for every array whose rank is not 2, before any cleaning, normalization,
\* color mapping or encoding step.
C13_InvalidShapeRaisedFirst ==
    ((Called("array_to_image") \/ Called("risk_score_to_image")) /\ Len(raw.shape) # 2)
        => (viz.result.error = "ValueError" /\ viz.result.steps = <<>>)

C13_Witness ==
    /\ Called("array_to_image")
    /\ raw = [shape |-> <<1, 2, 1>>, cells |-> <<Num(0), NaN>>]
    /\ viz.normalize
    /\ viz.result.error = "ValueError"

\* C14: with normalize=True and min_val < max_val (given, or the minimum and
\* maximum of the array) every cell is clipped to [min_val, max_val] and mapped
\* affinely to an intensity in 0..255: the intensity is the integer part of
\* 255 * (clipped - min_val) / (max_val - min_val), 0 at or below min_val, 255
\* at or above max_val, and non-decreasing in the cell.
C14_NormalizeClipsAndScales ==
    (Drawn("array_to_image") /\ viz.normalize /\ Gt(viz.result.hi, viz.result.lo)) =>
        LET r == viz.result
            lo == r.lo
            hi == r.hi
            x(p) == r.work.cells[p]
            clipped(p) == IF Gt(lo, x(p)) THEN lo ELSE IF Gt(x(p), hi) THEN hi ELSE x(p)
            scaled(p) == Mul(Num(255), Sub(clipped(p), lo))
        IN  /\ (viz.min_val = NoneVal /\ AllFinite(raw)) => lo = NpMin(raw)
            /\ (viz.max_val = NoneVal /\ AllFinite(raw)) => hi = NpMax(raw)
            /\ \A p \in DOMAIN r.img :
                  /\ r.img[p] \in 0..255
                  /\ IsFinite(raw.cells[p]) => x(p) = raw.cells[p]
                  /\ Le(Mul(Num(r.img[p]), Sub(hi, lo)), scaled(p))
                  /\ Gt(Mul(Num(r.img[p] + 1), Sub(hi, lo)), scaled(p))
                  /\ Le(x(p), lo) => r.img[p] = 0
                  /\ Le(hi, x(p)) => r.img[p] = 255
            /\ \A p, q \in DOMAIN r.img : Le(x(p), x(q)) => r.img[p] <= r.img[q]

C14_Witness ==
    /\ Drawn("array_to_image")
    /\ raw = Grid(<<1, 2>>, <<Num(0), Num(10)>>)
    /\ viz.normalize
    /\ viz.min_val = Num(0)
    /\ viz.max_val = Num(10)
    /\ viz.result.img = <<0, 255>>

\* C15: with normalize=True and min_val equal to max_val (given, or because
\* the array is constant) array_to_image raises no error and every intensity
\* is 0.
C15_DegenerateRangeGivesZero ==
    (Called("array_to_image") /\ Len(raw.shape) = 2 /\ viz.normalize
        /\ viz.result.lo = viz.result.hi) =>
        /\ viz.result.error = "none"
        /\ \A p \in DOMAIN viz.result.img : viz.result.img[p] = 0

C15_Witness ==
    /\ Drawn("array_to_image")
    /\ raw = Grid(<<1, 2>>, <<Num(10), Num(10)>>)
    /\ viz.normalize
    /\ viz.min_val = NoneVal
    /\ viz.max_val = NoneVal
    /\ viz.result.img = <<0, 0>>

\* the intensity array_to_image gives cell p when called with the arguments of
\* the last call on raw with cell p holding v
IntensityWith(p, v) ==
    array_to_image([raw EXCEPT !.cells[p] = v], viz.color_scheme, viz.normalize,
                   viz.min_val, viz.max_val).img[p]

\* C16: every non-finite cell (NaN, +inf and -inf alike) is replaced by 0
\* before normalization or clipping, so its intensity is that of a cell
\* holding 0.
C16_NonFiniteReplacedByZero ==
    Drawn("array_to_image") =>
        \A p \in DOMAIN raw.cells :
            ~IsFinite(raw.cells[p]) =>
                /\ viz.result.work.cells[p] = Num(0)
                /\ viz.result.img[p] = IntensityWith(p, Num(0))

\* C16 (amended): before normalization or clipping every NaN and every -inf
\* cell is replaced by 0 and every +inf cell by 255; a finite cell is kept. A
\* NaN or -inf cell gets the intensity of a cell holding 0, a +inf cell the
\* intensity of a cell holding 255.
C16_NonFiniteReplacedByZeroOr255 ==
    Drawn("array_to_image") =>
        \A p \in DOMAIN raw.cells :
            LET x == raw.cells[p]
                v == IF x = PosInf THEN Num(255) ELSE IF IsFinite(x) THEN x ELSE Num(0)
            IN  /\ viz.result.work.cells[p] = v
                /\ viz.result.img[p] = IntensityWith(p, v)

C16_Witness ==
    /\ Drawn("array_to_image")
    /\ raw = Grid(<<1, 2>>, <<NaN, PosInf>>)
    /\ ~viz.normalize
    /\ viz.result.img = <<0, 255>>

Min2(a, b) == IF a < b THEN a ELSE b

\* C17: for scheme water_blue and every intensity v in 0..255 the pixel is
\* R = G = 255 - min(3v, 255), B = min(2v, 255): the products saturate at 255
\* and never wrap around modulo 256.
C17_WaterBlueSaturates ==
    (Drawn("array_to_image") /\ viz.color_scheme = "water_blue") =>
        \A p \in DOMAIN viz.result.img :
            LET v == viz.result.img[p]
            IN  viz.result.colormap[p] =
                    <<255 - Min2(3 * v, 255), 255 - Min2(3 * v, 255), Min2(2 * v, 255)>>

\* the rows of the table of the schemes heat and blue_to_brown, in plain
\* integers (v/2, v/3, v/4: the integer quotient)
HeatTable(v) ==
    IF v < 85 THEN <<0, 3 * v, 255>>
    ELSE IF v < 170 THEN <<3 * (v - 85), 0, 255 - 3 * (v - 85)>>
    ELSE <<255, 3 * (v - 170), 0>>

BlueToBrownTable(v) ==
    IF v > 170 THEN <<0, v \div 2, v>>
    ELSE IF v > 85 THEN <<100 - v \div 2, 100 + v \div 3, v>>
    ELSE <<140 - v \div 2, 80 - v \div 4, v \div 3>>

Count(b) == IF b THEN 1 ELSE 0

\* C18: for the schemes heat and blue_to_brown and every intensity v in 0..255
\* exactly one branch applies, the pixel is the row of the table for that
\* branch, and every channel of the row lies in 0..255, so no 8-bit operation
\* wraps around.
C18_PiecewiseSchemesFollowTable ==
    Drawn("array_to_image") =>
        \A p \in DOMAIN viz.result.img :
            LET v == viz.result.img[p]
            IN  /\ viz.color_scheme = "heat" =>
                      /\ Count(cold_mask(v)) + Count(heat_medium_mask(v))
                            + Count(hot_mask(v)) = 1
                      /\ viz.result.colormap[p] = HeatTable(v)
                      /\ \A ch \in 1..3 : HeatTable(v)[ch] \in 0..255
                /\ viz.color_scheme = "blue_to_brown" =>
                      /\ Count(wet_mask(v)) + Count(moisture_medium_mask(v))
                            + Count(dry_mask(v)) = 1
                      /\ viz.result.colormap[p] = BlueToBrownTable(v)
                      /\ \A ch \in 1..3 : BlueToBrownTable(v)[ch] \in 0..255

C18_Witness ==
    /\ Drawn("array_to_image")
    /\ viz.color_scheme = "heat"
    /\ viz.result.img = <<85>>
    /\ viz.result.colormap = <<(<<0, 0, 255>>)>>

\* C19: risk_score_to_image gives every pixel R = the integer part of
\* 255 * clip(risk / scale_max, 0, 1), G = 255 - R and B = 0, so R + G = 255;
\* R is non-decreasing in risk; a NaN cell counts as scale_max / 2.
C19_RiskGradient ==
    Drawn("risk_score_to_image") =>
        LET r == viz.result
            risk(p) == IF IsNaN(raw.cells[p]) THEN Div(viz.scale_max, Num(2))
                       ELSE raw.cells[p]
            ratio(p) == Div(risk(p), viz.scale_max)
            clipped(p) == IF Gt(Num(0), ratio(p)) THEN Num(0)
                          ELSE IF Gt(ratio(p), Num(1)) THEN Num(1) ELSE ratio(p)
            R(p) == r.colormap[p][1]
            G(p) == r.colormap[p][2]
        IN  /\ \A p \in DOMAIN r.colormap :
                  /\ R(p) \in 0..255
                  /\ Le(Num(R(p)), Mul(Num(255), clipped(p)))
                  /\ Gt(Num(R(p) + 1), Mul(Num(255), clipped(p)))
                  /\ G(p) = 255 - R(p)
                  /\ r.colormap[p][3] = 0
                  /\ R(p) + G(p) = 255
            /\ \A p, q \in DOMAIN r.colormap : Le(risk(p), risk(q)) => R(p) <= R(q)

C19_Witness ==
    /\ Drawn("risk_score_to_image")
    /\ raw = Grid(<<1, 2>>, <<NaN, Num(10)>>)
    /\ viz.scale_max = Num(10)
    /\ viz.result.colormap = <<(<<127, 128, 0>>), (<<255, 0, 0>>)>>

\* C20: process_risk_data, array_to_image and risk_score_to_image never modify
\* the array passed to them: in every call, alone or in a sequence of calls on
\* the same array, the array holds afterwards the values and the shape it held
\* before.
C20_InputsNotModified == [][raw' = raw]_vars

C20_Witness ==
    /\ Drawn("array_to_image")
    /\ raw = Grid(<<1, 2>>, <<NaN, Num(5)>>)
    /\ viz.result.work = Grid(<<1, 2>>, <<Num(0), Num(5)>>)

\* --------------------------------------------------------------------------
\* Degenerate inputs and interpretation strings (process_risk_data).
\* --------------------------------------------------------------------------

\* Every cell of the grid is NaN or an infinity.
AllNonFinite(g) == \A p \in 1..Len(g.cells) : ~IsFinite(g.cells[p])

\* C21: a block whose input grid holds no finite cell still stores a risk grid
\* of numbers and reports a raw mean that is a number, not NaN or an infinity.
C21_AllNonFiniteGivesDefinedMean ==
    (LastPresent /\ AllNonFinite(last.raw)) =>
        /\ AllFinite(risk_layers[last.factor])
        /\ IsFinite(index_values[last.factor].raw)

\* The factors whose block calls an interpretation function.
LookupFactors == {VEG, WATER, URBAN, BURN, DRAIN}

\* The three breakpoints of a factor's interpretation, in tenths, descending.
InterpretationBreaks(f) ==
    CASE f = VEG -> <<6, 3, 1>>
      [] f = WATER -> <<3, 0, -2>>
      [] f = URBAN -> <<2, 0, -2>>
      [] f = BURN -> <<4, 2, 0>>
      [] f = DRAIN -> <<2, 0, -2>>

\* The four strings of a factor's interpretation, highest tier first.
InterpretationStrings(f) ==
    CASE f = VEG -> <<"Dense vegetation - lower fire risk, potential storm damage risk",
                      "Moderate vegetation - balanced risk profile",
                      "Sparse vegetation - higher fire risk",
                      "Very sparse/no vegetation - high fire risk, erosion risk">>
      [] f = WATER -> <<"High moisture content - lower fire risk",
                        "Moderate moisture content - medium fire risk",
                        "Low moisture content - elevated fire risk",
                        "Very low moisture - high fire risk">>
      [] f = URBAN -> <<"Dense built-up area - high property density",
                        "Moderate development - medium property density",
                        "Light development - low property density",
                        "Natural area - minimal built infrastructure">>
      [] f = BURN -> <<"Healthy vegetation - low fire risk",
                       "Moderate vegetation health - medium fire risk",
                       "Stressed vegetation - elevated fire risk",
                       "Severely stressed/burned vegetation - high fire risk">>
      [] f = DRAIN -> <<"Good drainage - vegetation thriving with appropriate moisture",
                        "Moderate drainage - some areas may have issues",
                        "Poor drainage - vegetation stressed despite moisture",
                        "Very poor drainage - high flood/waterlogging risk">>

\* The mean is strictly greater than t tenths (never so for NaN).
Exceeds(x, t) == x.k = "pinf" \/ (x.k = "fin" /\ Above(x, t))

\* The tier (1..4) in which strict comparisons with the breakpoints put a mean.
TierOf(f, x) ==
    LET b == InterpretationBreaks(f)
    IN  IF Exceeds(x, b[1]) THEN 1
        ELSE IF Exceeds(x, b[2]) THEN 2
        ELSE IF Exceeds(x, b[3]) THEN 3
        ELSE 4

\* The interpretation of the factor is the string of the tier of its mean.
FollowsLookup(f) ==
    index_values[f].interpretation = InterpretationStrings(f)[TierOf(f, index_values[f].raw)]

\* C22 as stated: for each of the six factors the interpretation is chosen
\* from four strings by strict comparisons of the mean with three breakpoints.
C22_FourTierLookupAllSix ==
    LastPresent => (last.factor \in LookupFactors /\ FollowsLookup(last.factor))

\* C22 amended: for vegetation, water, urban, burn and drainage the
\* interpretation is the string of the tier of the mean (strict comparisons,
\* breakpoints of its own, NaN in the last tier); for the roof factor it is
\* one fixed string whatever the mean.
C22_FourTierLookupExceptRoof ==
    LastPresent =>
        IF last.factor \in LookupFactors THEN FollowsLookup(last.factor)
        ELSE index_values[last.factor].interpretation
                 = "Custom roof material analysis for hail/storm vulnerability"

\* C22 witness: a vegetation mean of exactly 0.3 is above the risk breakpoint
\* 0.2 (score 5) and not above the interpretation breakpoint 0.3 (third tier).
C22_Witness ==
    /\ LastPresent
    /\ last.factor = VEG
    /\ index_values[VEG].raw = Tenths(3)
    /\ index_values[VEG].interpretation = "Sparse vegetation - higher fire risk"
    /\ risk_layers[VEG].cells[1] = Num(5)

\* --------------------------------------------------------------------------
\* analyze (app.py): the fetch loop, the total-failure test, the processing,
\* the images and the response of a request that passed the validation.
\* --------------------------------------------------------------------------

\* risk_factors_config in insertion order: the key and the description.
risk_factors_config ==
    <<[name |-> "vegetation_health", description |-> "NDVI (Vegetation Health)"],
      [name |-> "water_stress", description |-> "NDMI (Water/Moisture Content)"],
      [name |-> "urban_detection", description |-> "NDBI (Built-up Areas)"],
      [name |-> "burn_detection", description |-> "NBR (Burn Areas)"],
      [name |-> "roof_detection", description |-> "Roof Material Analysis"],
      [name |-> "drainage_detection", description |-> "Drainage Pattern Analysis"]>>

FactorNames == {risk_factors_config[i].name : i \in DOMAIN risk_factors_config}

\* What a call of a fetch function does: it raises, or it returns a list.
Raised == [raised |-> TRUE, data_result |-> <<>>]
Gave(data_result) == [raised |-> FALSE, data_result |-> data_result]
\* A list with one array of the given number of dimensions.
Fetched(ndim) == <<[ndim |-> ndim, synthetic |-> FALSE]>>
\* The outcomes of one fetch: a height x width x channels array, an array
\* without the channel axis, the empty list, an exception.
FetchOutcomes == {Gave(Fetched(3)), Gave(Fetched(2)), Gave(<<>>), Raised}

\* generate_simple_fallback: a list with one 256 x 256 x 2 array.
generate_simple_fallback == <<[ndim |-> 3, synthetic |-> TRUE]>>

\* The failure branches of the fetch loop with the fallback left out.
StoreFallbackRecordOnly(r, config) ==
    [r EXCEPT !.failed_apis = Append(@, config.description)]

\* The else branch and the except branch of the fetch loop: the description is
\* appended to failed_apis and the fallback is stored under the factor's key.
StoreFallback(r, config) ==
    [r EXCEPT !.failed_apis = Append(@, config.description),
              !.successful_data = Put(@, config.name, generate_simple_fallback)]

\* The if branch of the fetch loop.
StoreFetched(r, config, data_result) ==
    [r EXCEPT !.successful_data = Put(@, config.name, data_result)]

\* One iteration of the fetch loop for the factor at position i.
FetchStep(r, i, outcome) ==
    LET config == risk_factors_config[i]
        stored == IF outcome.raised THEN StoreFallback(r, config)
                  ELSE IF Len(outcome.data_result) > 0
                       THEN StoreFetched(r, config, outcome.data_result)
                  ELSE StoreFallback(r, config)
    IN  [stored EXCEPT !.outcomes = Append(@, outcome),
                       !.pc = IF i = Len(risk_factors_config) THEN "check" ELSE "fetch"]

NoResponse == [status |-> "none", code |-> 0, message |-> "",
               has_warnings |-> FALSE, using_fallback |-> FALSE, failed_apis |-> <<>>]

TotalFailure == [NoResponse EXCEPT !.status = "error", !.code = 500,
                    !.message = "Unable to fetch any satellite data"]

AnalysisFailed == [NoResponse EXCEPT !.status = "error", !.code = 500,
                      !.message = "Analysis failed"]

Success(failed_apis) ==
    [status |-> "success", code |-> 200,
     message |-> IF failed_apis # <<>> THEN "Analysis complete. Note: placeholder data"
                 ELSE "Analysis complete using real satellite data.",
     has_warnings |-> failed_apis # <<>>,
     using_fallback |-> failed_apis # <<>>,
     failed_apis |-> failed_apis]

\* The request at the start of the fetch loop.
StartOfFetch ==
    [pc |-> "fetch", outcomes |-> <<>>, failed_apis |-> <<>>, successful_data |-> <<>>,
     block |-> 1, converted |-> {}, calls |-> {}, response |-> NoResponse]

InitAnalyze ==
    /\ focus = "none"
    /\ pc = VEG
    /\ reference_shape = NoShape
    /\ risk_layers = <<>>
    /\ index_values = <<>>
    /\ last = NoBlock
    /\ first_shape = NoShape
    /\ given = {}
    /\ ret = <<>>
    /\ san = <<>>
    /\ raw = NoneData
    /\ viz = <<>>
    /\ req = StartOfFetch
    /\ session = <<>>
    /\ trend = <<>>
    /\ runs = <<>>
    /\ served = <<>>

others == <<pipeline, san, raw, viz>>

\* One pass of the for loop over risk_factors_config.
Fetch ==
    /\ req.pc = "fetch"
    /\ \E outcome \in FetchOutcomes :
          req' = FetchStep(req, Len(req.outcomes) + 1, outcome)
    /\ UNCHANGED <<others, session, trend, runs, served>>

\* if len(failed_apis) == len(risk_factors_config): return the error.
CheckFailures ==
    /\ req.pc = "check"
    /\ req' = IF Len(req.failed_apis) = Len(risk_factors_config)
              THEN [req EXCEPT !.pc = "done", !.response = TotalFailure]
              ELSE [req EXCEPT !.pc = "process",
                               !.calls = @ \cup {"process_risk_data"}]
    /\ UNCHANGED <<others, session, trend, runs, served>>

\* One block of process_risk_data called by analyze: X_data[0][:, :, 0] raises
\* IndexError for an array of fewer than three dimensions, nothing in
\* process_risk_data catches it, and the except clause of analyze answers.
ConvertBlock ==
    /\ req.pc = "process"
    /\ LET name == risk_factors_config[req.block].name
           data == req.successful_data[name]
       IN  req' = IF data[1].ndim < 3
                  THEN [req EXCEPT !.pc = "done", !.response = AnalysisFailed]
                  ELSE [req EXCEPT !.converted = @ \cup {name},
                                   !.block = @ + 1,
                                   !.pc = IF req.block = Len(risk_factors_config)
                                          THEN "images" ELSE "process"]
    /\ UNCHANGED <<others, session, trend, runs, served>>

\* risk_score_to_image for the composite, array_to_image for each factor.
Visualize ==
    /\ req.pc = "images"
    /\ req' = [req EXCEPT !.pc = "respond",
                          !.calls = @ \cup {"risk_score_to_image", "array_to_image"}]
    /\ UNCHANGED <<others, session, trend, runs, served>>

\* The status flags and the success response.
Respond ==
    /\ req.pc = "respond"
    /\ req' = [req EXCEPT !.pc = "done", !.response = Success(req.failed_apis)]
    /\ UNCHANGED <<others, session, trend, runs, served>>

NextAnalyze == Fetch \/ CheckFailures \/ ConvertBlock \/ Visualize \/ Respond

SpecAnalyze == InitAnalyze /\ [][NextAnalyze]_vars

\* The fetch of the factor at position i raised or returned the empty list.
FetchFailed(i) == req.outcomes[i].raised \/ req.outcomes[i].data_result = <<>>

\* The positions of the factors fetched so far, and those whose fetch failed.
FetchedSoFar == 1..Len(req.outcomes)
FailedSoFar == {i \in FetchedSoFar : FetchFailed(i)}

\* C23: after each pass of the fetch loop the factors handled so far all have
\* data (the fallback for a failed fetch, the fetched list otherwise), and
\* failed_apis holds the descriptions of exactly the failed ones, once each
\* and in order; a failure does not end the loop, which leaves with six
\* factors handled.
C23_FallbackForEachFailedFetch ==
    /\ DOMAIN req.successful_data = {risk_factors_config[i].name : i \in FetchedSoFar}
    /\ \A i \in FetchedSoFar :
          req.successful_data[risk_factors_config[i].name] =
              IF FetchFailed(i) THEN generate_simple_fallback
              ELSE req.outcomes[i].data_result
    /\ Len(req.failed_apis) = Cardinality(FailedSoFar)
    /\ \A i \in FailedSoFar :
          req.failed_apis[Cardinality({j \in FailedSoFar : j <= i})]
              = risk_factors_config[i].description
    /\ (req.pc # "fetch") => (Len(req.outcomes) = Len(risk_factors_config))

\* C23 witness: the loop is over; the first fetch raised, the second returned
\* the empty list, the four others returned data.
C23_Witness ==
    /\ req.pc = "check"
    /\ req.outcomes[1] = Raised
    /\ req.outcomes[2] = Gave(<<>>)
    /\ \A i \in 3..6 : req.outcomes[i] = Gave(Fetched(3))
    /\ req.failed_apis = <<"NDVI (Vegetation Health)", "NDMI (Water/Moisture Content)">>
    /\ req.successful_data["vegetation_health"][1].synthetic
    /\ ~req.successful_data["burn_detection"][1].synthetic

\* The request has been answered.
Answered == req # <<>> /\ req.pc = "done"

\* C24: the total-failure error is the answer exactly when all six fetches
\* failed, and then neither process_risk_data nor an image function was
\* called; with one to five failed fetches the answer is a success with
\* using_fallback and has_warnings set, with none a success with both unset.
C24_TotalFailureIffAllFailed ==
    Answered =>
        /\ (req.response = TotalFailure) <=> (Cardinality(FailedSoFar) = 6)
        /\ (Cardinality(FailedSoFar) = 6) => (req.calls = {})
        /\ (Cardinality(FailedSoFar) \in 1..5) =>
               /\ req.response.status = "success"
               /\ req.response.using_fallback
               /\ req.response.has_warnings
        /\ (Cardinality(FailedSoFar) = 0) =>
               /\ req.response.status = "success"
               /\ ~req.response.using_fallback
               /\ ~req.response.has_warnings

\* No fetch returned an array without the channel axis.
AllWellFormed == \A i \in FetchedSoFar : req.successful_data[risk_factors_config[i].name][1].ndim = 3

\* The statement of C24 for the requests whose fetched arrays are well formed.
TotalFailureIffAllFailedWellFormed == AllWellFormed => C24_TotalFailureIffAllFailed

\* The factors whose stored array has its three dimensions.
Convertible == {n \in DOMAIN req.successful_data : req.successful_data[n][1].ndim = 3}

\* C25: when the conversion of one factor raises (its array is malformed), the
\* factors with a well-formed array are converted all the same and the
\* request is answered with a success built from them.
C25_ErrorInOneFactorIsLocal ==
    (Answered /\ "process_risk_data" \in req.calls /\ Convertible # FactorNames) =>
        /\ req.converted = Convertible
        /\ req.response.status = "success"

\* --------------------------------------------------------------------------
\* Authentication (app.py): login, logout, login_required and the routes.
\* --------------------------------------------------------------------------

\* The number of requests of one client that are followed.
MaxRequests == 3

DEMO_CREDENTIALS == [e \in {"admin@customsat.it"} |-> "password"]

\* The e-mail addresses and passwords a login form is posted with.
Emails == {"admin@customsat.it", "guest@example.com"}
Passwords == {"password", "wrong"}

\* The routes that carry @login_required in the source.
DecoratedRoutes == {"analyze", "analyze_trends", "download_report", "get_ai_interpretation"}
\* The main routes of the application.
MainRoutes == {"index"} \cup DecoratedRoutes

\* not ('logged_in' not in session or not session['logged_in'])
LoggedIn(sess) == "logged_in" \in DOMAIN sess /\ sess["logged_in"]

\* An entry of the history: the route, the form posted to it, whether the
\* session held logged_in when the request came, whether the body of the view
\* ran, and the answer.
Entry(route, form, ran, answer) ==
    [route |-> route, form |-> form, logged_in |-> LoggedIn(session), ran |-> ran,
     answer |-> answer]

NoForm == [method |-> "GET", email |-> "", password |-> ""]

InitAuth ==
    /\ focus = "none"
    /\ pc = VEG
    /\ reference_shape = NoShape
    /\ risk_layers = <<>>
    /\ index_values = <<>>
    /\ last = NoBlock
    /\ first_shape = NoShape
    /\ given = {}
    /\ ret = <<>>
    /\ san = <<>>
    /\ raw = NoneData
    /\ viz = <<>>
    /\ req = <<>>
    /\ session = <<>>
    /\ trend = <<>>
    /\ runs = <<>>
    /\ served = <<>>

\* GET /login: the form is rendered.
LoginForm ==
    /\ Len(served) < MaxRequests
    /\ served' = Append(served, Entry("login", NoForm, TRUE, "render login.html"))
    /\ UNCHANGED <<others, req, session, trend, runs>>

\* POST /login: valid credentials set logged_in and user_email and redirect to
\* index; anything else renders the form again and leaves the session alone.
\* (flash stores its message under the key _flashes, which no view tests.)
Login ==
    /\ Len(served) < MaxRequests
    /\ \E email \in Emails, password \in Passwords :
          LET form == [method |-> "POST", email |-> email, password |-> password]
          IN  IF email \in DOMAIN DEMO_CREDENTIALS /\ DEMO_CREDENTIALS[email] = password
              THEN /\ session' = Put(Put(session, "logged_in", TRUE), "user_email", email)
                   /\ served' = Append(served, Entry("login", form, TRUE, "redirect index"))
              ELSE /\ session' = session
                   /\ served' = Append(served, Entry("login", form, TRUE, "render login.html"))
    /\ UNCHANGED <<others, req, trend, runs>>

\* GET /logout: session.clear() and a redirect to login.
Logout ==
    /\ Len(served) < MaxRequests
    /\ session' = <<>>
    /\ served' = Append(served, Entry("logout", NoForm, TRUE, "redirect login"))
    /\ UNCHANGED <<others, req, trend, runs>>

\* GET /: the view is registered without the decorator.
Index ==
    /\ Len(served) < MaxRequests
    /\ served' = Append(served, Entry("index", NoForm, TRUE, "render index.html"))
    /\ UNCHANGED <<others, req, session, trend, runs>>

\* A request to a view wrapped by login_required: decorated_function redirects
\* to login unless the session holds a true logged_in, else calls the view.
Decorated ==
    /\ Len(served) < MaxRequests
    /\ \E route \in DecoratedRoutes :
          served' = Append(served,
                       IF ~LoggedIn(session)
                       THEN Entry(route, NoForm, FALSE, "redirect login")
                       ELSE Entry(route, NoForm, TRUE, "view"))
    /\ UNCHANGED <<others, req, session, trend, runs>>

NextAuth == LoginForm \/ Login \/ Logout \/ Index \/ Decorated

SpecAuth == InitAuth /\ [][NextAuth]_vars

\* Request i was a login with the valid credentials.
SuccessfulLogin(i) ==
    /\ served[i].route = "login"
    /\ served[i].form.method = "POST"
    /\ served[i].form.email = "admin@customsat.it"
    /\ served[i].form.password = "password"

\* Before request i there was a successful login with no logout after it.
AuthenticatedBefore(i) ==
    \E j \in 1..(i - 1) :
        /\ SuccessfulLogin(j)
        /\ \A k \in (j + 1)..(i - 1) : served[k].route # "logout"

\* C26: the session holds logged_in exactly from a successful login to the
\* next logout (a failed login changes nothing), the body of a main route
\* runs only for a request made in that span, and a request to a main route
\* outside it is redirected to the login page.
C26_MainRoutesRequireLogin ==
    /\ LoggedIn(session) <=> AuthenticatedBefore(Len(served) + 1)
    /\ \A i \in DOMAIN served :
          /\ served[i].logged_in <=> AuthenticatedBefore(i)
          /\ served[i].route \in MainRoutes =>
                IF served[i].logged_in THEN served[i].ran
                ELSE ~served[i].ran /\ served[i].answer = "redirect login"

\* The statement of C26 for the four routes that carry the decorator.
DecoratedRoutesRequireLogin ==
    /\ LoggedIn(session) <=> AuthenticatedBefore(Len(served) + 1)
    /\ \A i \in DOMAIN served :
          /\ served[i].logged_in <=> AuthenticatedBefore(i)
          /\ served[i].route \in DecoratedRoutes =>
                IF served[i].logged_in THEN served[i].ran
                ELSE ~served[i].ran /\ served[i].answer = "redirect login"

\* --------------------------------------------------------------------------
\* analyze_trends (app.py): validation of the dates, the segmentation loop,
\* the loop over the periods and the response.
\* --------------------------------------------------------------------------

\* The number of entries of time_periods that are followed.
MaxPeriods == 6

\* A datetime: m counts the months from January 2023, d is the day of the
\* month, t is 0 at midnight and 1 later in the day.
DateTime(m, d, t) == [m |-> m, d |-> d, t |-> t]

\* The number of days of month m.
DaysIn(m) ==
    LET month == (m % 12) + 1
        year == 2023 + (m \div 12)
    IN  IF month = 2 THEN (IF year % 4 = 0 THEN 29 ELSE 28)
        ELSE IF month \in {4, 6, 9, 11} THEN 30
        ELSE 31

\* dt + relativedelta(months=k): the day is cut to the length of the month.
AddMonths(dt, k) ==
    LET m == dt.m + k
    IN  [dt EXCEPT !.m = m, !.d = IF dt.d > DaysIn(m) THEN DaysIn(m) ELSE dt.d]

\* a < b and a <= b for datetimes.
Before(a, b) ==
    \/ a.m < b.m
    \/ a.m = b.m /\ a.d < b.d
    \/ a.m = b.m /\ a.d = b.d /\ a.t < b.t
NotAfter(a, b) == a = b \/ Before(a, b)

\* dt.strftime('%Y-%m-%d'): the date without the time of day.
strftime(dt) == [m |-> dt.m, d |-> dt.d]
\* datetime.strptime(s, '%Y-%m-%d'): midnight of the date.
strptime(date) == DateTime(date.m, date.d, 0)

\* datetime.now() at the time of the request: 10 March 2025 or 5 November
\* 2026, during the day.
Clock == {DateTime(26, 10, 1), DateTime(46, 5, 1)}

\* The start_date and end_date of the requests: 31 Jan 2023 to 15 Mar 2023,
\* 31 Jan 2023 to 29 Feb 2024, 1 Jun 2023 to itself, 1 Sep 2023 to 1 Mar 2023,
\* 1 Jun 2024 to 1 Jan 2027, 1 Jan 2027 to 1 Jun 2027.
RequestDates ==
    {<<[m |-> 0, d |-> 31], [m |-> 2, d |-> 15]>>,
     <<[m |-> 0, d |-> 31], [m |-> 13, d |-> 29]>>,
     <<[m |-> 5, d |-> 1], [m |-> 5, d |-> 1]>>,
     <<[m |-> 8, d |-> 1], [m |-> 2, d |-> 1]>>,
     <<[m |-> 17, d |-> 1], [m |-> 48, d |-> 1]>>,
     <<[m |-> 48, d |-> 1], [m |-> 53, d |-> 1]>>}

\* The values of interval_months in the requests (the JSON body is not
\* validated; 6 is the default).
Intervals == {0, 3, 6, 12}

\* The fetch outcomes of one period, by position in risk_factors_config: all
\* six return data; the first raises; all six fail (by turns an exception and
\* the empty list); the first returns an array without the channel axis.
PeriodOutcomes ==
    {[i \in 1..6 |-> Gave(Fetched(3))],
     [i \in 1..6 |-> IF i = 1 THEN Raised ELSE Gave(Fetched(3))],
     [i \in 1..6 |-> IF i % 2 = 1 THEN Raised ELSE Gave(<<>>)],
     [i \in 1..6 |-> IF i = 1 THEN Gave(Fetched(2)) ELSE Gave(Fetched(3))]}

TrendResponse(status, code, message) == [status |-> status, code |-> code, message |-> message]

NoTrendResponse == TrendResponse("none", 0, "")

\* The request at its arrival.
Arrived(dates, interval_months, now) ==
    [pc |-> "validate", start_date |-> dates[1], end_date |-> dates[2],
     interval_months |-> interval_months, now |-> now,
     start_dt |-> strptime(dates[1]), end_dt |-> strptime(dates[2]),
     current_dt |-> strptime(dates[1]), time_periods |-> <<>>,
     beyond |-> 0, i |-> 1, fetched |-> <<>>, skipped |-> {}, trend_data |-> <<>>,
     response |-> NoTrendResponse]

InitTrends ==
    /\ focus = "none"
    /\ pc = VEG
    /\ reference_shape = NoShape
    /\ risk_layers = <<>>
    /\ index_values = <<>>
    /\ last = NoBlock
    /\ first_shape = NoShape
    /\ given = {}
    /\ ret = <<>>
    /\ san = <<>>
    /\ raw = NoneData
    /\ viz = <<>>
    /\ req = <<>>
    /\ session = <<>>
    /\ trend \in {Arrived(dates, interval_months, now) :
                     dates \in RequestDates, interval_months \in Intervals, now \in Clock}
    /\ runs = <<>>
    /\ served = <<>>

\* The dates after the adjustments: an end in the future becomes the current
\* date, a start in the future the date 730 days (24 months) earlier, and an
\* end in December 2024 or later gives 1 June 2023 to 31 August 2024.
AdjustDates(tr) ==
    LET end1 == IF Before(tr.now, tr.end_dt) THEN tr.now ELSE tr.end_dt
        start1 == IF Before(tr.now, tr.start_dt) THEN AddMonths(tr.now, -24) ELSE tr.start_dt
        safe == end1.m >= 23
        start2 == IF safe THEN DateTime(5, 1, 0) ELSE start1
        end2 == IF safe THEN DateTime(19, 31, 0) ELSE end1
    IN  [tr EXCEPT !.start_dt = start2, !.end_dt = end2, !.current_dt = start2,
                   !.pc = "segment"]

\* if start_dt >= end_dt: the 400 response; else the adjustments.
Validate ==
    /\ trend.pc = "validate"
    /\ trend' = IF NotAfter(trend.end_dt, trend.start_dt)
                THEN [trend EXCEPT !.pc = "done",
                         !.response = TrendResponse("error", 400,
                                          "Start date must be before end date.")]
                ELSE AdjustDates(trend)
    /\ UNCHANGED <<others, req, session, runs, served>>

\* The body of the while loop: one period is appended and current_dt advances.
SegmentStep(tr) ==
    LET three == AddMonths(tr.current_dt, 3)
        period_end == IF Before(tr.end_dt, three) THEN tr.end_dt ELSE three
    IN  [tr EXCEPT !.time_periods = Append(@, [start |-> strftime(tr.current_dt),
                                               end |-> strftime(period_end),
                                               analysis_date |-> strftime(period_end)]),
                   !.current_dt = AddMonths(@, tr.interval_months)]

\* while current_dt <= end_dt: one pass. Of a list that outgrows MaxPeriods
\* the first MaxPeriods entries are kept, and the parity of the number of the
\* entries beyond them.
Segment ==
    /\ trend.pc = "segment"
    /\ NotAfter(trend.current_dt, trend.end_dt)
    /\ trend' = IF Len(trend.time_periods) < MaxPeriods
                THEN SegmentStep(trend)
                ELSE [trend EXCEPT !.current_dt = SegmentStep(trend).current_dt,
                                   !.beyond = 1 - @]
    /\ UNCHANGED <<others, req, session, runs, served>>

\* The while test fails: the loop over the periods starts.
EndSegment ==
    /\ trend.pc = "segment"
    /\ ~NotAfter(trend.current_dt, trend.end_dt)
    /\ trend' = [trend EXCEPT !.pc = "periods"]
    /\ UNCHANGED <<others, req, session, runs, served>>

\* The fetch loop of one period: failed_apis and successful_data after the
\* six fetches (the failure branches append the factor's key).
FetchPeriod(outcomes) ==
    LET after[k \in 0..6] ==
            IF k = 0 THEN [failed_apis |-> <<>>, successful_data |-> <<>>]
            ELSE LET name == risk_factors_config[k].name
                     failed == outcomes[k].raised \/ Len(outcomes[k].data_result) = 0
                 IN  IF failed
                     THEN [failed_apis |-> Append(after[k - 1].failed_apis, name),
                           successful_data |-> Put(after[k - 1].successful_data, name,
                                                   generate_simple_fallback)]
                     ELSE [failed_apis |-> after[k - 1].failed_apis,
                           successful_data |-> Put(after[k - 1].successful_data, name,
                                                   outcomes[k].data_result)]
    IN  after[6]

\* process_risk_data raises for the data of the period.
ProcessRaises(successful_data) ==
    \E name \in DOMAIN successful_data : successful_data[name][1].ndim < 3

\* except Exception: continue, with a break in the place of the continue.
ExceptBreak(tr) ==
    [tr EXCEPT !.skipped = @ \cup {tr.i}, !.i = Len(tr.time_periods) + 1]

\* except Exception: continue.
ExceptContinue(tr) ==
    [tr EXCEPT !.skipped = @ \cup {tr.i}, !.i = @ + 1]

\* The body of the for loop over time_periods for the period at position i.
PeriodStep(tr, outcomes) ==
    LET period == tr.time_periods[tr.i]
        got == FetchPeriod(outcomes)
        seen == [tr EXCEPT !.fetched = Append(@, outcomes)]
    IN  IF got.successful_data # <<>>
        THEN IF ProcessRaises(got.successful_data)
             THEN ExceptContinue(seen)
             ELSE [seen EXCEPT !.trend_data =
                                   Append(@, [analysis_date |-> period.analysis_date,
                                              position |-> tr.i,
                                              failed_apis |-> got.failed_apis,
                                              using_fallback |-> Len(got.failed_apis) > 0]),
                               !.i = @ + 1]
        ELSE [seen EXCEPT !.i = @ + 1]

\* One pass of the for loop over time_periods.
AnalyzePeriod ==
    /\ trend.pc = "periods"
    /\ trend.i <= Len(trend.time_periods)
    /\ \E outcomes \in PeriodOutcomes : trend' = PeriodStep(trend, outcomes)
    /\ UNCHANGED <<others, req, session, runs, served>>

\* After the loop: the error for an empty trend_data, else the success.
RespondTrends ==
    /\ trend.pc = "periods"
    /\ trend.i > Len(trend.time_periods)
    /\ trend' = [trend EXCEPT !.pc = "done",
                    !.response = IF trend.trend_data = <<>>
                                 THEN TrendResponse("error", 500,
                                          "No data could be retrieved for any time period.")
                                 ELSE TrendResponse("success", 200, "trend")]
    /\ UNCHANGED <<others, req, session, runs, served>>

NextTrends == Validate \/ Segment \/ EndSegment \/ AnalyzePeriod \/ RespondTrends

SpecTrends == InitTrends /\ [][NextTrends]_vars

\* The handler runs to its end: a step that can be taken is taken.
SpecTrendsFair == SpecTrends /\ WF_vars(NextTrends)

\* Every fetch of the period processed at position k failed.
AllFetchesFailed(k) ==
    \A j \in 1..6 : trend.fetched[k][j].raised \/ trend.fetched[k][j].data_result = <<>>

\* The positions of the periods that have an entry in trend_data.
Reported == {trend.trend_data[e].position : e \in DOMAIN trend.trend_data}

\* C27: a period for which all six fetches raised or returned the empty list
\* has no entry in trend_data.
C27_AllFailedPeriodGivesNoEntry ==
    trend # <<>> =>
        \A k \in DOMAIN trend.fetched : AllFetchesFailed(k) => k \notin Reported

\* A fetch of the period at position k returned an array that makes
\* process_risk_data raise.
Malformed(k) ==
    \E j \in 1..6 :
        /\ ~trend.fetched[k][j].raised
        /\ trend.fetched[k][j].data_result # <<>>
        /\ trend.fetched[k][j].data_result[1].ndim < 3

\* a <= b for dates without a time of day.
DateNotAfter(a, b) == a.m < b.m \/ (a.m = b.m /\ a.d <= b.d)

\* The loop over the periods is over.
PeriodsDone == trend # <<>> /\ trend.pc = "done" /\ trend.response.code # 400

\* C28: the periods are handled in the order of time_periods, which is
\* chronological; an exception in one period leaves only that period out;
\* every period is handled; trend_data holds the others in order; and the
\* error is the answer exactly when trend_data is empty.
C28_PeriodsIndependentInOrder ==
    trend # <<>> =>
        /\ \A k \in DOMAIN trend.fetched :
              k < trend.i /\ ((k \in Reported) <=> ~Malformed(k))
        /\ \A e \in DOMAIN trend.trend_data :
              /\ trend.trend_data[e].analysis_date
                     = trend.time_periods[trend.trend_data[e].position].analysis_date
              /\ e > 1 =>
                    /\ trend.trend_data[e - 1].position < trend.trend_data[e].position
                    /\ DateNotAfter(trend.trend_data[e - 1].analysis_date,
                                    trend.trend_data[e].analysis_date)
        /\ PeriodsDone =>
              /\ Len(trend.fetched) = Len(trend.time_periods)
              /\ (trend.response.status = "error") <=> (Reported = {})
              /\ (trend.response.status = "success") <=> (Reported # {})

\* C28 witness: three periods, the second raised, the first and the third are
\* in trend_data, and the answer is the success.
C28_Witness ==
    /\ PeriodsDone
    /\ Len(trend.time_periods) = 3
    /\ Malformed(2)
    /\ Reported = {1, 3}
    /\ trend.response.status = "success"

\* The segmentation loop is over and time_periods is as described.
Segmented ==
    /\ trend.pc \in {"periods", "done"}
    /\ trend.time_periods # <<>>
    /\ \A k \in DOMAIN trend.time_periods :
          LET period == trend.time_periods[k]
          IN  /\ DateNotAfter(period.start, period.end)
              /\ DateNotAfter(period.end, trend.end_date)
              /\ DateNotAfter(period.end, strftime(AddMonths(strptime(period.start), 3)))
              /\ k > 1 => period.start =
                     strftime(AddMonths(strptime(trend.time_periods[k - 1].start),
                                        trend.interval_months))

\* C29: for every request that passed the validation, whatever its
\* interval_months, the segmentation loop ends with a non-empty list whose
\* periods have start <= end <= the end date of the request, span at most
\* three months and start interval_months after one another.
C29_SegmentationTerminates == (trend # <<>> /\ trend.pc = "segment") ~> Segmented

\* The statement of C29 for the requests with a positive interval_months.
SegmentationTerminatesForPositive ==
    (trend # <<>> /\ trend.pc = "segment" /\ trend.interval_months > 0) ~> Segmented

\* With a positive interval_months the list stays below MaxPeriods entries.
PositiveIntervalsBelowMaxPeriods ==
    (trend # <<>> /\ trend.interval_months > 0) => Len(trend.time_periods) < MaxPeriods

\* --------------------------------------------------------------------------
\* The mask channel: two calls of process_risk_data on data that agree in
\* channel 0.
\* --------------------------------------------------------------------------

\* The largest number of pixels of the arrays compared.
MaxMaskCells == 2

\* X_data[0]: an array of shape height x width x channels, kept as one
\* sequence of cells per channel.
Bands(shape, channels) == [shape |-> shape, channels |-> channels]

\* The extraction with the pixels of mask 0 turned into NaN.
Channel0Masked(X_data) ==
    Grid(X_data.shape,
         [p \in 1..Cells(X_data.shape) |->
             IF Len(X_data.channels) > 1 /\ X_data.channels[2][p] = Num(0)
             THEN NaN ELSE X_data.channels[1][p]])

\* X_data[0][:, :, 0].astype(np.float64)
Channel0(X_data) == Grid(X_data.shape, X_data.channels[1])

\* process_risk_data with the argument of factor f given and the five others
\* None: the block of f, then the composite of the single layer.
process_single(f, X_data) ==
    LET value == Channel0(X_data)
        layer == IF f = VEG THEN vegetation_risk(value) ELSE RiskOf(f, value)
        mean == NpNanMean(value)
        composite_risk ==
            Grid(layer.shape,
                 [p \in 1..Len(layer.cells) |->
                     NpClip(Div(Add(Num(0), layer.cells[p]), Num(1)), Num(1), Num(10))])
    IN  [composite_risk |-> composite_risk,
         index_values |->
             Put(Put(<<>>, f,
                     [raw |-> mean,
                      interpretation |-> IF f = VEG THEN get_ndvi_interpretation(mean)
                                         ELSE InterpretationOf(f, mean)]),
                 "composite_risk", [raw |-> NpNanMean(composite_risk), interpretation |-> ""]),
         risk_values |-> Put(<<>>, f, NpNanMean(layer)),
         risk_layer |-> layer]

\* Channel 0 of the data compared: values of different tiers and NaN.
MaskedValues == {Tenths(7), Tenths(1), NaN}
\* The mask channel: 1 for a valid pixel, 0 for an invalid one.
MaskValues == {Num(0), Num(1)}

\* The data of the given shape and channel 0: without a mask channel, and
\* with every mask.
WithMasks(shape, cells) ==
    {Bands(shape, <<cells>>)}
        \cup {Bands(shape, <<cells, mask>>) : mask \in [1..Cells(shape) -> MaskValues]}

MaskedData ==
    UNION {UNION {WithMasks(s, c) : c \in [1..Cells(s) -> MaskedValues]} :
              s \in ShapesUpTo(MaxMaskCells)}

InitMask ==
    /\ focus = "none"
    /\ pc = VEG
    /\ reference_shape = NoShape
    /\ risk_layers = <<>>
    /\ index_values = <<>>
    /\ last = NoBlock
    /\ first_shape = NoShape
    /\ given = {}
    /\ ret = <<>>
    /\ san = <<>>
    /\ raw = NoneData
    /\ viz = <<>>
    /\ req = <<>>
    /\ session = <<>>
    /\ trend = <<>>
    /\ runs = <<>>
    /\ served = <<>>

\* A call of process_risk_data with the data of one factor.
FirstCall ==
    /\ runs = <<>>
    /\ \E f \in Factors, X_data \in MaskedData :
          runs' = [factor |-> f, calls |-> 1,
                     first |-> [X_data |-> X_data, result |-> process_single(f, X_data)],
                     second |-> [X_data |-> X_data, result |-> process_single(f, X_data)]]
    /\ UNCHANGED <<others, req, session, trend, served>>

\* A second call for the same factor with data of the same channel 0 and
\* another mask channel, or none.
SecondCall ==
    /\ runs # <<>>
    /\ runs.calls = 1
    /\ \E X_data \in WithMasks(runs.first.X_data.shape, runs.first.X_data.channels[1]) :
          /\ X_data # runs.first.X_data
          /\ runs' = [runs EXCEPT !.calls = 2,
                         !.second = [X_data |-> X_data,
                                     result |-> process_single(runs.factor, X_data)]]
    /\ UNCHANGED <<others, req, session, trend, served>>

NextMask == FirstCall \/ SecondCall

SpecMask == InitMask /\ [][NextMask]_vars

\* C30: two calls whose data agree in channel 0 and differ in the mask channel
\* (or in its presence) return the same composite grid, index_values and
\* risk_values.
C30_MaskChannelIgnored ==
    (runs # <<>> /\ runs.calls = 2) =>
        /\ runs.first.result.composite_risk = runs.second.result.composite_risk
        /\ runs.first.result.index_values = runs.second.result.index_values
        /\ runs.first.result.risk_values = runs.second.result.risk_values

\* C30 witness: vegetation data whose single pixel 0.7 is marked invalid in
\* the first call and valid in the second; both calls score it 3.
C30_Witness ==
    /\ runs # <<>>
    /\ runs.calls = 2
    /\ runs.factor = VEG
    /\ runs.first.X_data = Bands(<<1, 1>>, <<(<<Tenths(7)>>), (<<Num(0)>>)>>)
    /\ runs.second.X_data = Bands(<<1, 1>>, <<(<<Tenths(7)>>), (<<Num(1)>>)>>)
    /\ runs.first.result.composite_risk.cells[1] = Num(3)
    /\ runs.second.result.composite_risk.cells[1] = Num(3)
====
